---- MODULE Spec2Model ----
(***************************************************************************)
(* Session client of the Garmin Connect library: GarminClient (login,      *)
(* submitMfa, resume, getAccessToken, connectapi, logout), the file token  *)
(* storage it persists to, and the consumer cache of the OAuth bridge.     *)
(*                                                                         *)
(* Every client method is an async function.  One action of the model is   *)
(* the code that runs between two awaits: the resumption of the pending    *)
(* await, the synchronous statements after it, and the call that starts    *)
(* the next await.  Several calls may be in flight on the one client.      *)
(***************************************************************************)
EXTENDS Integers, Sequences, FiniteSets, TLC

\* ---------------------------------------------------------------- bounds
MaxOps == 3         \* client calls started in one behaviour
MaxTicks == 1       \* clock steps of ExpiryMargin seconds
MaxWaiters == 3     \* waitForAuth() calls in one behaviour
MaxNotifies == 2    \* notifyAuth() calls in one behaviour
MaxGateTime == 3    \* clock steps of the gate, in units of one timeout
MaxProbeNow == 6    \* the latest clock reading isOAuth2Expired is applied at
MaxStorageOps == 3  \* save, load and clear calls on the storage taken alone

\* A behaviour either injects one failure of the network or of the file
\* system into calls made one after the other, or starts one call while
\* another is in flight and injects no failure, or injects one failure into
\* two calls of which the second starts while the first is in flight.
Regimes == {[overlaps |-> 0, faults |-> 1, ops |-> MaxOps],
            [overlaps |-> 1, faults |-> 0, ops |-> MaxOps],
            [overlaps |-> 1, faults |-> 1, ops |-> 2]}

\* ------------------------------------------------------ program constants
ExpiryMargin == 60

\* Two calls may be in flight on the client at once.
Tasks == {1, 2}

\* The client the application builds passes no oauthConsumer override.
oauthConsumerOverride == FALSE

\* An absent OAuth1 token is 0, a present one is the identity of the token
\* the preauthorization endpoint returned.  An OAuth2 token is the identity
\* of the exchange that minted it (its access_token), the OAuth1 token it was
\* exchanged from and its absolute expiry; NullO2 is the absent one.
NullO2 == [id |-> 0, o1 |-> 0, expires_at |-> 0]

\* expires_in values the exchange endpoint may answer with.
ExpiresInChoices == {2 * ExpiryMargin}

\* Contents of a token file.
Absent == [kind |-> "absent"]
Corrupt == [kind |-> "corrupt"]
Json(v) == [kind |-> "json", val |-> v]

VARIABLES
    oauth1Token,      \* GarminClient.oauth1Token
    oauth2Token,      \* GarminClient.oauth2Token
    pendingMfaState,  \* GarminClient.pendingMfaState (0: null)
    cachedConsumer,   \* module-level consumer cache: "none", "fetched", "fallback"
    file1,            \* oauth1_token.json
    file2,            \* oauth2_token.json
    now,              \* Math.floor(Date.now() / 1000)
    pc,               \* per call: the await it is suspended in
    op,               \* per call: the client method
    loc,              \* per call: its local variables
    trace,            \* per call: the requests and storage calls it made, in order
    last,             \* the call that has just returned or raised, and its outcome
    nextO1, nextO2, nextMfa,  \* identities the service hands out next
    regime,           \* the regime of the behaviour
    faults,           \* failures injected so far
    ops,              \* calls started so far
    overlaps,         \* calls started so far while another was in flight
    consumerFetches,  \* GETs of the consumer document so far
    loggedOut,        \* a logout() has returned, and no login, submitMfa or
                      \* resume has been called since
    promise,          \* per waitForAuth() call: the state of its promise
    listeners,        \* the "authenticated" listeners of the emitter
    timers,           \* the armed timers
    deadline,         \* per waitForAuth() call: when its timer is due
    gateNow,          \* the clock the timers run on
    signalled,        \* per call: a notifyAuth() ran while it was pending
    notifies,         \* notifyAuth() calls so far
    toolLast,         \* the tool handler that has just completed
    probe             \* the input and the result of a function applied alone

clientVars == <<oauth1Token, oauth2Token, pendingMfaState, cachedConsumer,
                file1, file2, now, pc, op, loc, trace, last, nextO1, nextO2,
                nextMfa, regime, faults, ops, overlaps, consumerFetches,
                loggedOut>>

gateVars == <<promise, listeners, timers, deadline, gateNow, signalled,
              notifies, toolLast>>

vars == <<clientVars, gateVars, probe>>

\* ---------------------------------------------------------------- helpers

NoLoc == [arg |-> 0, state |-> 0, fetching |-> FALSE, x2arg |-> 0, saveO1 |-> 0,
          saveO2 |-> NullO2, raw1 |-> [kind |-> "unread"],
          raw2 |-> [kind |-> "unread"], phase |-> "none", accessToken |-> 0,
          rm1 |-> FALSE, rm2 |-> FALSE, clean |-> TRUE, wasAuth |-> FALSE,
          wasExpired |-> FALSE]

NoResult == [status |-> "none", kind |-> "", o1 |-> 0, o2 |-> NullO2, val |-> 0]
Ok(v) == [NoResult EXCEPT !.status = "ok", !.val = v]
Err(k) == [NoResult EXCEPT !.status = "error", !.kind = k]

Free(t) == pc[t] = "idle"
InFlight(t) == ~Free(t)

\* An expiry test without the boundary: a token with exactly the margin
\* left is still good.
IsExpiredPastMargin(tok, n) ==
    IF tok = NullO2 THEN TRUE ELSE n > tok.expires_at - ExpiryMargin

\* private isOAuth2Expired(): boolean
IsExpired(tok, n) ==
    IF tok = NullO2 THEN TRUE ELSE n >= tok.expires_at - ExpiryMargin

isOAuth2Expired == IsExpired(oauth2Token, now)

\* get isAuthenticated(): boolean
IsAuthenticatedOf(t1, t2) == t1 # 0 /\ t2 # NullO2

\* An isAuthenticated that asked for a token that is still good.
isAuthenticatedAndFresh == oauth1Token # 0 /\ ~isOAuth2Expired

isAuthenticated == IsAuthenticatedOf(oauth1Token, oauth2Token)

\* The locals of call t become l; every other call in flight has been
\* interleaved with.
Touch(t, l) ==
    [u \in Tasks |->
        IF u = t THEN l
        ELSE IF InFlight(u) THEN [loc[u] EXCEPT !.clean = FALSE]
        ELSE loc[u]]

\* last describes a return only in the state that the returning step
\* produces: what holds of it and of the client's state there holds at the
\* moment of the return.
NoLast == [op |-> "none", res |-> NoResult, trace |-> <<>>, arg |-> 0,
           state |-> 0, clean |-> TRUE, wasAuth |-> FALSE,
           wasExpired |-> FALSE]

\* The calls that end the logged-out state of the client.
SignsIn(name) == name \in {"login", "submitMfa", "resume"}

\* What the step of call t makes of loggedOut: a step of a free slot is the
\* call of the method op'[t].
History(t, returned) ==
    loggedOut' = IF Free(t) /\ SignsIn(op'[t]) THEN FALSE
                 ELSE IF returned = "logout" THEN TRUE
                 ELSE loggedOut

\* Call t goes on to its next await with locals l, having made the requests
\* and storage calls tr.
GoTo(t, newpc, l, tr) ==
    /\ pc' = [pc EXCEPT ![t] = newpc]
    /\ loc' = Touch(t, l)
    /\ trace' = [trace EXCEPT ![t] = tr]
    /\ last' = NoLast
    /\ History(t, "none")
    /\ UNCHANGED <<gateVars, probe>>

Step(t, newpc, l, ev) == GoTo(t, newpc, l, trace[t] \o ev)

\* Call t of method name returns or raises res.
Complete(t, name, l, tr, res) ==
    /\ last' = [op |-> name, res |-> res, trace |-> tr, arg |-> l.arg,
                state |-> l.state, clean |-> l.clean, wasAuth |-> l.wasAuth,
                wasExpired |-> l.wasExpired]
    /\ pc' = [pc EXCEPT ![t] = "idle"]
    /\ loc' = Touch(t, NoLoc)
    /\ trace' = [trace EXCEPT ![t] = <<>>]
    /\ History(t, IF res.status = "error" THEN "none" ELSE name)
    /\ UNCHANGED <<gateVars, probe>>

Return(t, l, ev, res) == Complete(t, op[t], l, trace[t] \o ev, res)

\* A client that wrapped whatever was raised into an AuthError.
ThrowAuthError(t, l, kind) == Return(t, l, <<>>, Err("AuthError"))

\* The error raised in call t leaves the method: nothing catches it.
Throw(t, l, kind) == Return(t, l, <<>>, Err(kind))

\* A call starts in the lowest free slot.
CanStart(t) ==
    /\ Free(t)
    /\ \A u \in Tasks : u < t => InFlight(u)
    /\ ops < regime.ops
    /\ (\E u \in Tasks : InFlight(u)) => overlaps < regime.overlaps

Begin(t, name) ==
    /\ op' = [op EXCEPT ![t] = name]
    /\ ops' = ops + 1
    /\ overlaps' = IF \E u \in Tasks : InFlight(u) THEN overlaps + 1
                   ELSE overlaps

\* A failure of the environment is drawn only while the budget lasts.
Fault(failed) ==
    /\ failed => faults < regime.faults
    /\ faults' = IF failed THEN faults + 1 ELSE faults
    /\ regime' = regime

\* ------------------------------------------------------------------- Init

Waiters == 1..MaxWaiters

NoTool == [tool |-> "none", status |-> "none"]

NoProbe == [fn |-> "none"]

\* No waitForAuth() has been called: the emitter has no listener.
GateIdle ==
    /\ promise = [w \in Waiters |-> "none"]
    /\ listeners = {}
    /\ timers = {}
    /\ deadline = [w \in Waiters |-> 0]
    /\ gateNow = 0
    /\ signalled = [w \in Waiters |-> FALSE]
    /\ notifies = 0
    /\ toolLast = NoTool

StoredO2 == {[id |-> 1, o1 |-> 1, expires_at |-> e] : e \in ExpiresInChoices}

ClientInit ==
    /\ oauth1Token = 0
    /\ oauth2Token = NullO2
    /\ pendingMfaState = 0
    /\ cachedConsumer = "none"
    /\ \/ file1 = Absent /\ file2 = Absent
       \/ file1 = Json(1) /\ \E s \in StoredO2 : file2 = Json(s)
    /\ now = 0
    /\ pc = [t \in Tasks |-> "idle"]
    /\ op = [t \in Tasks |-> "none"]
    /\ loc = [t \in Tasks |-> NoLoc]
    /\ trace = [t \in Tasks |-> <<>>]
    /\ last = NoLast
    /\ nextO1 = 2
    /\ nextO2 = 2
    /\ nextMfa = 1
    /\ regime \in Regimes
    /\ faults = 0
    /\ ops = 0
    /\ overlaps = 0
    /\ consumerFetches = 0
    /\ loggedOut = FALSE

Init ==
    /\ ClientInit
    /\ GateIdle
    /\ probe = NoProbe

\* ------------------------------------------------------------- SSO flow

\* A page title is the sequence of its words; NoTitle is a page in which
\* TITLE_RE finds nothing.
NoTitle == <<>>
Titles == {NoTitle, <<"Success">>, <<"Enter", "MFA", "code">>,
           <<"Security", "Challenge">>, <<"Success", "MFA">>, <<"Locked">>}

\* String.prototype.includes, on words.
Includes(title, w) == \E i \in DOMAIN title : title[i] = w

\* What the network answers to the establish, the signin-page and the
\* submit request: net is FALSE when fetch() rejects.
EstablishResponses == [net : BOOLEAN, status : {200, 429}]
PrepareResponses == [net : BOOLEAN, status : {200, 429}, csrf : BOOLEAN]
SubmitResponses == [net : BOOLEAN, status : {200, 429}, title : Titles,
                    csrf : BOOLEAN, ticket : BOOLEAN]

\* sso.login, step 1: the response is discarded.
EstablishOutcome(r) == IF ~r.net THEN "NetworkError" ELSE "next"

\* A step 2 that went on without a CSRF token.
PrepareUnchecked(r) == IF ~r.net THEN "NetworkError" ELSE "next"

\* sso.login, step 2: extractCsrf(signinHtml).
PrepareOutcome(r) ==
    IF ~r.net THEN "NetworkError"
    ELSE IF ~r.csrf THEN "AuthError"
    ELSE "next"

\* A classification that knows "MFA" but not "Challenge".
SsoLoginNoChallenge(r) ==
    IF ~r.net THEN "NetworkError"
    ELSE IF r.status = 429 THEN "RateLimitError"
    ELSE IF r.title = NoTitle THEN "AuthError"
    ELSE IF Includes(r.title, "MFA")
         THEN (IF r.csrf THEN "needs_mfa" ELSE "AuthError")
    ELSE IF r.title # <<"Success">> THEN "AuthError"
    ELSE IF r.ticket THEN "ticket"
    ELSE "AuthError"

\* sso.login, step 3 and the classification of its response.
SsoLoginOutcome(r) ==
    IF ~r.net THEN "NetworkError"
    ELSE IF r.status = 429 THEN "RateLimitError"
    ELSE IF r.title = NoTitle THEN "AuthError"
    ELSE IF Includes(r.title, "MFA") \/ Includes(r.title, "Challenge")
         THEN (IF r.csrf THEN "needs_mfa" ELSE "AuthError")
    ELSE IF r.title # <<"Success">> THEN "AuthError"
    ELSE IF r.ticket THEN "ticket"
    ELSE "AuthError"

\* A verification that classified its page as login does.
SsoMfaAsLogin(r) == SsoLoginOutcome(r)

\* sso.submitMfa: the classification of the verify-MFA response.
SsoMfaOutcome(r) ==
    IF ~r.net THEN "NetworkError"
    ELSE IF r.status = 429 THEN "RateLimitError"
    ELSE IF r.title = NoTitle THEN "AuthError"
    ELSE IF r.title # <<"Success">> THEN "AuthError"
    ELSE IF r.ticket THEN "ticket"
    ELSE "AuthError"

IsError(o) == o \in {"NetworkError", "RateLimitError", "AuthError",
                     "TokenExpiredError", "FsError"}

\* class X extends Y, for the error classes.
Superclass(k) ==
    IF k \in {"AuthError", "RateLimitError", "NetworkError",
              "TokenExpiredError", "MfaRequiredError"}
    THEN "GarminError" ELSE "Error"

\* e instanceof c, for an error e of class k.
InstanceOf(k, c) == k = c \/ Superclass(k) = c \/ c = "Error"

\* The message of an error: its fixed text, and the page title or the HTTP
\* status it quotes, if any.
Message(text, title, status) == [text |-> text, title |-> title, status |-> status]
NoMessage == Message("", NoTitle, 0)

\* extractCsrf(signinHtml) of step 2.
PrepareMessage(r) ==
    IF PrepareOutcome(r) = "AuthError"
    THEN Message("Could not extract CSRF token", NoTitle, 0)
    ELSE NoMessage

\* The message sso.login raises with, for the outcomes of SsoLoginOutcome
\* that are an AuthError.
SsoLoginMessage(r) ==
    IF SsoLoginOutcome(r) # "AuthError" THEN NoMessage
    ELSE IF r.title = NoTitle
         THEN Message("Could not extract page title", NoTitle, 0)
    ELSE IF Includes(r.title, "MFA") \/ Includes(r.title, "Challenge")
         THEN Message("Could not extract CSRF token", NoTitle, 0)
    ELSE IF r.title # <<"Success">>
         THEN Message("Login failed", r.title, 0)
    ELSE Message("Could not extract SSO ticket", NoTitle, 0)

\* The message sso.submitMfa raises with.
SsoMfaMessage(r) ==
    IF SsoMfaOutcome(r) # "AuthError" THEN NoMessage
    ELSE IF r.title = NoTitle
         THEN Message("Could not extract page title", NoTitle, 0)
    ELSE IF r.title # <<"Success">>
         THEN Message("MFA verification failed", r.title, 0)
    ELSE Message("Could not extract SSO ticket", NoTitle, 0)

\* ------------------------------------------------------- consumer cache

\* The call of oauth.getConsumer(override): the GET is issued when neither
\* an override nor a cached value exists.
CallGetConsumer(t, l, tr) ==
    LET fetch == ~oauthConsumerOverride /\ cachedConsumer = "none" IN
    /\ consumerFetches' = IF fetch THEN consumerFetches + 1 ELSE consumerFetches
    /\ GoTo(t, "consumer", [l EXCEPT !.fetching = fetch], tr)

\* A refresh that joined the one another call has in flight: the call
\* returns the token in memory without an exchange of its own.
RefreshCoalesced(t, name, l, o1, tr) ==
    IF o1 = 0
    THEN /\ Complete(t, name, l, tr, Err("TokenExpiredError"))
         /\ UNCHANGED consumerFetches
    ELSE IF \E u \in Tasks \ {t} :
               /\ pc[u] \in {"consumer", "x2", "w1", "w2"}
               /\ op[u] \notin {"login", "submitMfa"}
    THEN /\ Complete(t, name, l, tr, Ok(oauth2Token.id))
         /\ UNCHANGED consumerFetches
    ELSE CallGetConsumer(t, l, tr)

\* private refreshOAuth2(), up to its first await.
RefreshStart(t, name, l, o1, tr) ==
    IF o1 = 0
    THEN /\ Complete(t, name, l, tr, Err("TokenExpiredError"))
         /\ UNCHANGED consumerFetches
    ELSE CallGetConsumer(t, l, tr)

\* ------------------------------------------------------------------ login

\* login(email, password), up to the credentials POST of sso.login.  The
\* establish and the signin-page request read and write nothing of the
\* client, so no other call can tell when they return: they are taken with
\* the call.
LoginCalled(t, e, p) ==
    /\ CanStart(t)
    /\ Begin(t, "login")
    /\ LET oe == EstablishOutcome(e)
           op2 == PrepareOutcome(p)
       IN  IF IsError(oe)
              THEN /\ Fault(TRUE)
                   /\ Complete(t, "login", NoLoc, <<"establish">>, Err(oe))
              ELSE IF IsError(op2)
              THEN /\ Fault(TRUE)
                   /\ Complete(t, "login", NoLoc, <<"establish", "prepare">>,
                               Err(op2))
              ELSE /\ Fault(FALSE)
                   /\ GoTo(t, "submit", NoLoc,
                           <<"establish", "prepare", "submit">>)
    /\ UNCHANGED <<oauth1Token, oauth2Token, pendingMfaState, cachedConsumer,
                   file1, file2, now, nextO1, nextO2, nextMfa, consumerFetches>>

LoginCall(t) ==
    /\ CanStart(t)
    /\ \E e \in EstablishResponses, p \in PrepareResponses :
          LoginCalled(t, e, p)

\* A login that kept no MfaState.
RetainsNothing(mfaState) == 0

\* this.pendingMfaState = result.mfaState
RetainedMfaState(mfaState) == mfaState

\* The rest of sso.login and of login(): the MFA branch, or the call of
\* exchangeAndSave(ticket) up to its first await.
SubmitAnswered(t, r) ==
    /\ pc[t] = "submit"
    /\ LET o == SsoLoginOutcome(r) IN
          /\ Fault(IsError(o))
          /\ IF IsError(o)
             THEN /\ Throw(t, loc[t], o)
                  /\ UNCHANGED <<pendingMfaState, nextMfa, consumerFetches>>
             ELSE IF o = "needs_mfa"
             THEN /\ pendingMfaState' = RetainedMfaState(nextMfa)
                  /\ nextMfa' = nextMfa + 1
                  /\ Return(t, loc[t], <<>>,
                          [NoResult EXCEPT !.status = "needs_mfa", !.val = nextMfa])
                  /\ UNCHANGED consumerFetches
             ELSE /\ CallGetConsumer(t, loc[t], trace[t])
                  /\ UNCHANGED <<pendingMfaState, nextMfa>>
    /\ UNCHANGED <<oauth1Token, oauth2Token, cachedConsumer, file1, file2, now,
                   op, ops, overlaps, nextO1, nextO2>>

SubmitReturn(t) ==
    /\ pc[t] = "submit"
    /\ \E r \in SubmitResponses : SubmitAnswered(t, r)

\* -------------------------------------------------------------- submitMfa

\* The MfaState values a caller may hold: none, or one a login returned.
MfaArgs == 0..(nextMfa - 1)

\* A submitMfa that preferred the retained state to the caller's.
PendingFirst(arg, pending) == IF pending # 0 THEN pending ELSE arg

\* const state = mfaState ?? this.pendingMfaState
MfaStateUsed(arg, pending) == IF arg # 0 THEN arg ELSE pending

\* submitMfa(mfaCode, mfaState?), up to the request of sso.submitMfa.
SubmitMfaCall(t) ==
    /\ CanStart(t)
    /\ Begin(t, "submitMfa")
    /\ \E arg \in MfaArgs :
          LET state == MfaStateUsed(arg, pendingMfaState)
              l == [NoLoc EXCEPT !.arg = arg, !.state = state]
          IN  IF state = 0
              THEN Complete(t, "submitMfa", l, <<>>, Err("AuthError"))
              ELSE GoTo(t, "verifyMfa", l, <<"verifyMfa">>)
    /\ UNCHANGED <<oauth1Token, oauth2Token, pendingMfaState, cachedConsumer,
                   file1, file2, now, nextO1, nextO2, nextMfa, regime, faults,
                   consumerFetches>>

\* The rest of sso.submitMfa, then exchangeAndSave(ticket) up to its first
\* await.
VerifyMfaAnswered(t, r) ==
    /\ pc[t] = "verifyMfa"
    /\ LET o == SsoMfaOutcome(r) IN
          /\ Fault(IsError(o))
          /\ IF IsError(o)
             THEN /\ Throw(t, loc[t], o)
                  /\ UNCHANGED consumerFetches
             ELSE CallGetConsumer(t, loc[t], trace[t])
    /\ UNCHANGED <<oauth1Token, oauth2Token, pendingMfaState, cachedConsumer,
                   file1, file2, now, op, ops, overlaps, nextO1, nextO2, nextMfa>>

VerifyMfaReturn(t) ==
    /\ pc[t] = "verifyMfa"
    /\ \E r \in SubmitResponses : VerifyMfaAnswered(t, r)

\* ------------------------------------------------------------ OAuth bridge

\* The preauthorization answer: its status, and which of oauth_token and
\* oauth_token_secret its form-encoded body carries.
Oauth1Responses == [net : BOOLEAN, status : {200, 401, 429, 500},
                    oauth_token : BOOLEAN, oauth_token_secret : BOOLEAN]
Oauth2Responses == [net : BOOLEAN, status : {200, 401, 429, 500},
                    expires_in : ExpiresInChoices]

\* Response.ok
IsOk(status) == status >= 200 /\ status <= 299

\* A getOAuth1Token content with oauth_token alone.
OAuth1OutcomeLax(r) ==
    IF ~r.net THEN "NetworkError"
    ELSE IF r.status = 401 THEN "AuthError"
    ELSE IF r.status = 429 THEN "RateLimitError"
    ELSE IF ~IsOk(r.status) THEN "AuthError"
    ELSE IF ~r.oauth_token THEN "AuthError"
    ELSE "token"

\* getOAuth1Token: the classification of the preauthorization response.
OAuth1Outcome(r) ==
    IF ~r.net THEN "NetworkError"
    ELSE IF r.status = 401 THEN "AuthError"
    ELSE IF r.status = 429 THEN "RateLimitError"
    ELSE IF ~IsOk(r.status) THEN "AuthError"
    ELSE IF ~r.oauth_token \/ ~r.oauth_token_secret THEN "AuthError"
    ELSE "token"

\* The message getOAuth1Token raises its AuthError with.
OAuth1Message(r) ==
    IF OAuth1Outcome(r) # "AuthError" THEN NoMessage
    ELSE IF r.status = 401
         THEN Message("OAuth1 preauthorization rejected", NoTitle, 0)
    ELSE IF ~IsOk(r.status)
         THEN Message("OAuth1 preauthorization failed", NoTitle, r.status)
    ELSE Message("Invalid OAuth1 response: missing token", NoTitle, 0)

\* An exchange that knows no token-expired error: a 401 is an AuthError.
OAuth2OutcomeFlat(r) ==
    IF ~r.net THEN "NetworkError"
    ELSE IF r.status = 429 THEN "RateLimitError"
    ELSE IF ~IsOk(r.status) THEN "AuthError"
    ELSE "token"

\* exchangeOAuth2: the classification of the exchange response.
OAuth2Outcome(r) ==
    IF ~r.net THEN "NetworkError"
    ELSE IF r.status = 401 THEN "TokenExpiredError"
    ELSE IF r.status = 429 THEN "RateLimitError"
    ELSE IF ~IsOk(r.status) THEN "AuthError"
    ELSE "token"

\* The message exchangeOAuth2 raises its AuthError with.
OAuth2Message(r) ==
    IF OAuth2Outcome(r) # "AuthError" THEN NoMessage
    ELSE Message("OAuth2 exchange failed", NoTitle, r.status)

\* exchangeOAuth2: expires_at: now + expiresIn.
ExpiresAt(n, expiresIn) == n + expiresIn

InExchangeAndSave(t) == op[t] \in {"login", "submitMfa"}

\* The resumption of `await oauth.getConsumer(...)`: the fetched document
\* or the fallback is cached, whatever the cache holds by now.  Then
\* exchangeAndSave calls getOAuth1Token, and refreshOAuth2 calls
\* exchangeOAuth2(this.oauth1Token, consumer), which dereferences its
\* argument before it sends anything.
ConsumerReturn(t) ==
    /\ pc[t] = "consumer"
    /\ \E fetched \in BOOLEAN :
          /\ ~loc[t].fetching => fetched
          /\ Fault(~fetched)
          /\ cachedConsumer' =
                IF loc[t].fetching
                THEN (IF fetched THEN "fetched" ELSE "fallback")
                ELSE cachedConsumer
    /\ IF InExchangeAndSave(t)
       THEN Step(t, "x1", loc[t], <<"x1">>)
       ELSE IF oauth1Token = 0
       THEN Throw(t, loc[t], "TypeError")
       ELSE Step(t, "x2", [loc[t] EXCEPT !.x2arg = oauth1Token], <<"x2">>)
    /\ UNCHANGED <<oauth1Token, oauth2Token, pendingMfaState, file1, file2, now,
                   op, ops, overlaps, nextO1, nextO2, nextMfa, consumerFetches>>

\* exchangeAndSave: this.oauth1Token = await oauth.getOAuth1Token(...), then
\* the call of exchangeOAuth2(this.oauth1Token, consumer).
OAuth1Answered(t, r) ==
    /\ pc[t] = "x1"
    /\ LET o == OAuth1Outcome(r) IN
          /\ Fault(IsError(o))
          /\ IF IsError(o)
             THEN /\ Throw(t, loc[t], o)
                  /\ UNCHANGED <<oauth1Token, nextO1>>
             ELSE /\ oauth1Token' = nextO1
                  /\ nextO1' = nextO1 + 1
                  /\ Step(t, "x2", [loc[t] EXCEPT !.x2arg = nextO1], <<"x2">>)
    /\ UNCHANGED <<oauth2Token, pendingMfaState, cachedConsumer, file1, file2,
                   now, op, ops, overlaps, nextO2, nextMfa, consumerFetches>>

OAuth1Return(t) ==
    /\ pc[t] = "x1"
    /\ \E r \in Oauth1Responses : OAuth1Answered(t, r)

\* exchangeAndSave and refreshOAuth2: this.oauth2Token = await
\* oauth.exchangeOAuth2(...), then the call of
\* this.storage.save(this.oauth1Token, this.oauth2Token) up to its first
\* writeFile.  mkdir changes no token file, so no other call can tell when
\* it returns: it is taken with the call of save.
OAuth2Answered(t, r) ==
    /\ pc[t] = "x2"
    /\ \E mkdirOk \in BOOLEAN :
          LET o == OAuth2Outcome(r)
              tok == [id |-> nextO2, o1 |-> loc[t].x2arg,
                      expires_at |-> ExpiresAt(now, r.expires_in)]
          IN
          /\ Fault(IsError(o) \/ ~mkdirOk)
          /\ IF IsError(o)
             THEN /\ Throw(t, loc[t], o)
                  /\ UNCHANGED <<oauth2Token, nextO2>>
             ELSE /\ oauth2Token' = tok
                  /\ nextO2' = nextO2 + 1
                  /\ IF mkdirOk
                     THEN Step(t, "w1",
                               [loc[t] EXCEPT !.saveO1 = oauth1Token,
                                              !.saveO2 = tok],
                               <<"save">>)
                     ELSE Return(t, loc[t], <<"save">>, Err("FsError"))
    /\ UNCHANGED <<oauth1Token, pendingMfaState, cachedConsumer, file1, file2,
                   now, op, ops, overlaps, nextO1, nextMfa, consumerFetches>>

\* The resumption of `await oauth.exchangeOAuth2(...)`, whatever the answer.
OAuth2Return(t) ==
    /\ pc[t] = "x2"
    /\ \E r \in Oauth2Responses : OAuth2Answered(t, r)

\* ----------------------------------------------------------- token storage

\* The continuation of the caller of exchangeAndSave / refreshOAuth2 once
\* storage.save has returned.
AfterSave(t) ==
    CASE op[t] = "login" ->
            /\ Return(t, loc[t], <<>>,
                    [NoResult EXCEPT !.status = "success", !.o1 = oauth1Token,
                                     !.o2 = oauth2Token])
            /\ UNCHANGED pendingMfaState
      [] op[t] = "submitMfa" ->
            /\ pendingMfaState' = 0
            /\ Return(t, loc[t], <<>>, Ok(0))
      [] op[t] = "resume" ->
            /\ Return(t, loc[t], <<>>, Ok(0))
            /\ UNCHANGED pendingMfaState
      [] op[t] = "getAccessToken" ->
            /\ IF oauth2Token = NullO2
               THEN Throw(t, loc[t], "TypeError")
               ELSE Return(t, loc[t], <<>>, Ok(oauth2Token.id))
            /\ UNCHANGED pendingMfaState
      [] op[t] = "connectapi" ->
            /\ IF oauth2Token = NullO2
               THEN Throw(t, loc[t], "TypeError")
               ELSE Step(t, "req",
                         [loc[t] EXCEPT
                             !.phase = IF @ = "pre" THEN "first" ELSE "retry",
                             !.accessToken = oauth2Token.id],
                         <<"req">>)
            /\ UNCHANGED pendingMfaState

\* What a writeFile that failed leaves of the file.
AfterFailedWrite(f) == {f, Corrupt}

\* FileTokenStorage.save: await writeFile(oauth1_token.json, ...)
Write1Return(t) ==
    /\ pc[t] = "w1"
    /\ \E ok \in BOOLEAN :
          /\ Fault(~ok)
          /\ IF ok
             THEN /\ file1' = Json(loc[t].saveO1)
                  /\ Step(t, "w2", loc[t], <<>>)
             ELSE /\ file1' \in AfterFailedWrite(file1)
                  /\ Throw(t, loc[t], "FsError")
    /\ UNCHANGED <<oauth1Token, oauth2Token, pendingMfaState, cachedConsumer,
                   file2, now, op, ops, overlaps, nextO1, nextO2, nextMfa, consumerFetches>>

\* FileTokenStorage.save: await writeFile(oauth2_token.json, ...), and what
\* the caller of save does next.
Write2Return(t) ==
    /\ pc[t] = "w2"
    /\ \E ok \in BOOLEAN :
          /\ Fault(~ok)
          /\ IF ok
             THEN /\ file2' = Json(loc[t].saveO2)
                  /\ AfterSave(t)
             ELSE /\ file2' \in AfterFailedWrite(file2)
                  /\ Throw(t, loc[t], "FsError")
                  /\ UNCHANGED pendingMfaState
    /\ UNCHANGED <<oauth1Token, oauth2Token, cachedConsumer, file1, now, op, ops, overlaps,
                   nextO1, nextO2, nextMfa, consumerFetches>>

Unread == [kind |-> "unread"]

\* FileTokenStorage.load: the two readFile calls of Promise.all complete in
\* either order.
Read1(t) ==
    /\ pc[t] = "load"
    /\ loc[t].raw1 = Unread
    /\ Step(t, "load", [loc[t] EXCEPT !.raw1 = file1], <<>>)
    /\ UNCHANGED <<oauth1Token, oauth2Token, pendingMfaState, cachedConsumer,
                   file1, file2, now, op, ops, overlaps, nextO1, nextO2, nextMfa, regime, faults,
                   consumerFetches>>

Read2(t) ==
    /\ pc[t] = "load"
    /\ loc[t].raw2 = Unread
    /\ Step(t, "load", [loc[t] EXCEPT !.raw2 = file2], <<>>)
    /\ UNCHANGED <<oauth1Token, oauth2Token, pendingMfaState, cachedConsumer,
                   file1, file2, now, op, ops, overlaps, nextO1, nextO2, nextMfa, regime, faults,
                   consumerFetches>>

\* Promise.all settles when both reads are done or one has been rejected.
LoadSettled(raw1, raw2) ==
    \/ raw1 = Absent
    \/ raw2 = Absent
    \/ raw1 # Unread /\ raw2 # Unread

NoTokens == [null |-> TRUE, oauth1 |-> 0, oauth2 |-> NullO2]

\* A load that swallowed the error of each JSON.parse by itself.
LoadLenient(raw1, raw2) ==
    IF raw1 = Absent \/ raw2 = Absent \/ raw1 = Unread \/ raw2 = Unread
    THEN NoTokens
    ELSE [null |-> FALSE,
          oauth1 |-> IF raw1.kind = "json" THEN raw1.val ELSE 0,
          oauth2 |-> IF raw2.kind = "json" THEN raw2.val ELSE NullO2]

\* FileTokenStorage.load: the pair, or null when a read or JSON.parse threw.
LoadResult(raw1, raw2) ==
    IF raw1.kind # "json" \/ raw2.kind # "json"
    THEN NoTokens
    ELSE [null |-> FALSE, oauth1 |-> raw1.val, oauth2 |-> raw2.val]

\* ----------------------------------------------------------------- resume

\* resume(), up to the reads of storage.load().
ResumeCall(t) ==
    /\ CanStart(t)
    /\ Begin(t, "resume")
    /\ GoTo(t, "load", [NoLoc EXCEPT !.wasAuth = isAuthenticated], <<"load">>)
    /\ UNCHANGED <<oauth1Token, oauth2Token, pendingMfaState, cachedConsumer,
                   file1, file2, now, nextO1, nextO2, nextMfa, regime, faults,
                   consumerFetches>>

\* The rest of resume(): the tokens are installed and, if the OAuth2 token is
\* expired, refreshOAuth2() runs up to its first await.
LoadReturn(t) ==
    /\ pc[t] = "load"
    /\ LoadSettled(loc[t].raw1, loc[t].raw2)
    /\ LET tokens == LoadResult(loc[t].raw1, loc[t].raw2) IN
       IF tokens.null
       THEN /\ Throw(t, loc[t], "AuthError")
            /\ UNCHANGED <<oauth1Token, oauth2Token, consumerFetches>>
       ELSE LET o1 == tokens.oauth1
                o2 == tokens.oauth2
                expired == IsExpired(o2, now)
                l == [loc[t] EXCEPT !.wasExpired = expired]
            IN  /\ oauth1Token' = o1
                /\ oauth2Token' = o2
                /\ IF expired
                   THEN RefreshStart(t, op[t], l, o1, trace[t])
                   ELSE /\ Return(t, l, <<>>, Ok(0))
                        /\ UNCHANGED consumerFetches
    /\ UNCHANGED <<pendingMfaState, cachedConsumer, file1, file2, now, op, ops, overlaps,
                   nextO1, nextO2, nextMfa, regime, faults>>

\* --------------------------------------------- getAccessToken, connectapi

\* getAccessToken(), up to its first await or, without one, its return;
\* connectapi(path, method, body) calls it first and, when it returns
\* without a refresh, sends the request.
TokenCall(t, name) ==
    /\ CanStart(t)
    /\ Begin(t, name)
    /\ LET l == [NoLoc EXCEPT !.phase = "pre",
                              !.wasAuth = isAuthenticated,
                              !.wasExpired = isOAuth2Expired]
       IN  IF oauth2Token = NullO2 \/ oauth1Token = 0
           THEN /\ Complete(t, name, l, <<>>, Err("AuthError"))
                /\ UNCHANGED consumerFetches
           ELSE IF isOAuth2Expired
           THEN RefreshStart(t, name, l, oauth1Token, <<>>)
           ELSE IF name = "getAccessToken"
           THEN /\ Complete(t, name, l, <<>>, Ok(oauth2Token.id))
                /\ UNCHANGED consumerFetches
           ELSE /\ GoTo(t, "req",
                        [l EXCEPT !.phase = "first",
                                  !.accessToken = oauth2Token.id],
                        <<"req">>)
                /\ UNCHANGED consumerFetches
    /\ UNCHANGED <<oauth1Token, oauth2Token, pendingMfaState, cachedConsumer,
                   file1, file2, now, nextO1, nextO2, nextMfa, regime, faults>>

GetAccessTokenCall(t) == TokenCall(t, "getAccessToken")

ConnectApiCall(t) == TokenCall(t, "connectapi")

\* What the data endpoint answers: net is FALSE when fetch() rejects.
ApiResponses == [net : BOOLEAN, status : {200, 204, 401, 500}]

RespEvent(r) ==
    IF ~r.net THEN "rfail"
    ELSE CASE r.status = 200 -> "r200"
           [] r.status = 204 -> "r204"
           [] r.status = 401 -> "r401"
           [] r.status = 500 -> "r500"

\* connectapi after a response that is not a first 401: the second 401, the
\* !resp.ok case, the empty body, the JSON body.
ApiOutcome(r) ==
    IF r.status = 401 THEN Err("TokenExpiredError")
    ELSE IF r.status \notin {200, 204} THEN Err("GarminError")
    ELSE IF r.status = 204 THEN Ok(0)
    ELSE Ok(1)

\* A connectapi that took every 401 for final.
RetryNever(phase) == FALSE

\* May connectapi answer a 401 of this request with a refresh and a retry?
RetryAllowed(phase) == phase = "first"

\* The resumption of `await this.makeApiRequest(...)`.
ApiResponse(t) ==
    /\ pc[t] = "req"
    /\ \E r \in ApiResponses :
          /\ Fault(~r.net)
          /\ IF ~r.net
             THEN /\ Return(t, loc[t], <<RespEvent(r)>>, Err("FetchError"))
                  /\ UNCHANGED consumerFetches
             ELSE IF r.status = 401 /\ RetryAllowed(loc[t].phase)
             THEN RefreshStart(t, op[t], [loc[t] EXCEPT !.phase = "post"], oauth1Token,
                               trace[t] \o <<RespEvent(r)>>)
             ELSE /\ Return(t, loc[t], <<RespEvent(r)>>, ApiOutcome(r))
                  /\ UNCHANGED consumerFetches
    /\ UNCHANGED <<oauth1Token, oauth2Token, pendingMfaState, cachedConsumer,
                   file1, file2, now, op, ops, overlaps, nextO1, nextO2, nextMfa>>

\* ----------------------------------------------------------------- logout

\* logout(), up to the two rm calls of storage.clear().
LogoutCall(t) ==
    /\ CanStart(t)
    /\ Begin(t, "logout")
    /\ oauth1Token' = 0
    /\ oauth2Token' = NullO2
    /\ GoTo(t, "clear", [NoLoc EXCEPT !.wasAuth = isAuthenticated], <<"clear">>)
    /\ UNCHANGED <<pendingMfaState, cachedConsumer, file1, file2, now, nextO1,
                   nextO2, nextMfa, regime, faults, consumerFetches>>

\* A clear that left the file where it was.
NotRemoved(f) == f

\* rm(file, { force: true }) resolves whether or not the file exists.
Removed(f) == Absent

\* FileTokenStorage.clear: the two rm calls of Promise.all complete in
\* either order.
Rm1(t) ==
    /\ pc[t] = "clear"
    /\ ~loc[t].rm1
    /\ file1' = Removed(file1)
    /\ Step(t, "clear", [loc[t] EXCEPT !.rm1 = TRUE], <<>>)
    /\ UNCHANGED <<oauth1Token, oauth2Token, pendingMfaState, cachedConsumer,
                   file2, now, op, ops, overlaps, nextO1, nextO2, nextMfa, regime, faults,
                   consumerFetches>>

Rm2(t) ==
    /\ pc[t] = "clear"
    /\ ~loc[t].rm2
    /\ file2' = Removed(file2)
    /\ Step(t, "clear", [loc[t] EXCEPT !.rm2 = TRUE], <<>>)
    /\ UNCHANGED <<oauth1Token, oauth2Token, pendingMfaState, cachedConsumer,
                   file1, now, op, ops, overlaps, nextO1, nextO2, nextMfa, regime, faults,
                   consumerFetches>>

ClearReturn(t) ==
    /\ pc[t] = "clear"
    /\ loc[t].rm1 /\ loc[t].rm2
    /\ Return(t, loc[t], <<>>, Ok(0))
    /\ UNCHANGED <<oauth1Token, oauth2Token, pendingMfaState, cachedConsumer,
                   file1, file2, now, op, ops, overlaps, nextO1, nextO2, nextMfa, regime, faults,
                   consumerFetches>>

\* -------------------------------------------------------- isAuthenticated

\* A read of the isAuthenticated getter: 1 for true, 0 for false.
IsAuthenticatedCall(t) ==
    /\ CanStart(t)
    /\ Begin(t, "isAuthenticated")
    /\ last' = [NoLast EXCEPT !.op = "isAuthenticated",
                              !.res = Ok(IF isAuthenticated THEN 1 ELSE 0)]
    /\ UNCHANGED <<pc, loc, trace, loggedOut, gateVars, probe>>
    /\ UNCHANGED <<oauth1Token, oauth2Token, pendingMfaState, cachedConsumer,
                   file1, file2, now, nextO1, nextO2, nextMfa, regime, faults,
                   consumerFetches>>

\* ------------------------------------------------------------------ clock

Tick ==
    /\ now < MaxTicks * ExpiryMargin
    /\ now' = now + ExpiryMargin
    /\ last' = NoLast
    /\ UNCHANGED <<oauth1Token, oauth2Token, pendingMfaState, cachedConsumer,
                   file1, file2, pc, op, loc, trace, nextO1, nextO2,
                   nextMfa, regime, faults, ops, overlaps, consumerFetches,
                   loggedOut, gateVars, probe>>

\* ------------------------------------------------------------------- Next

Next ==
    \/ Tick
    \/ \E t \in Tasks :
          \/ LoginCall(t)
          \/ SubmitReturn(t)
          \/ SubmitMfaCall(t)
          \/ VerifyMfaReturn(t)
          \/ ConsumerReturn(t)
          \/ OAuth1Return(t)
          \/ OAuth2Return(t)
          \/ Write1Return(t)
          \/ Write2Return(t)
          \/ ResumeCall(t)
          \/ Read1(t)
          \/ Read2(t)
          \/ LoadReturn(t)
          \/ GetAccessTokenCall(t)
          \/ ConnectApiCall(t)
          \/ ApiResponse(t)
          \/ LogoutCall(t)
          \/ Rm1(t)
          \/ Rm2(t)
          \/ ClearReturn(t)
          \/ IsAuthenticatedCall(t)

Spec == Init /\ [][Next]_vars

\* ------------------------------------------------------------ auth gate
\* src/src/auth-gate.ts: an EventEmitter on which waitForAuth() parks a
\* one-shot listener next to a timer, and notifyAuth() emits "authenticated".
\* The tool handlers of registerAuthTools run against the same client.

\* timeoutMs, in units of one timeout: the default and a longer one.
TimeoutChoices == {1, 2}

\* A resolve() and a reject() that settled nothing.
SettleNothing(p, outcome) == p

\* resolve() and reject() of a promise that has settled do nothing.
Settle(p, outcome) == IF p = "pending" THEN outcome ELSE p

\* A gate that remembered an earlier notifyAuth() for the callers to come.
Buffered(n) == IF n > 0 THEN "resolved" ELSE "pending"

\* new Promise<void>(...): the executor settles nothing by itself.
NewPromise(n) == "pending"

\* waitForAuth(timeoutMs): the executor arms the timer, then registers
\* onAuth with emitter.once.
WaitForAuthCalled(w, timeoutMs) ==
    /\ promise[w] = "none"
    /\ \A v \in Waiters : v < w => promise[v] # "none"
    /\ gateNow + timeoutMs <= MaxGateTime
    /\ deadline' = [deadline EXCEPT ![w] = gateNow + timeoutMs]
    /\ promise' = [promise EXCEPT ![w] = NewPromise(notifies)]
    /\ timers' = timers \cup {w}
    /\ listeners' = listeners \cup {w}
    /\ toolLast' = NoTool
    /\ UNCHANGED <<gateNow, signalled, notifies>>

WaitForAuth(w) ==
    /\ promise[w] = "none"
    /\ \E timeoutMs \in TimeoutChoices : WaitForAuthCalled(w, timeoutMs)
    /\ UNCHANGED <<clientVars, probe>>

\* An emit that ran the first listener only.
EmittedFirst(ls) == {w \in ls : \A v \in ls : w <= v}

\* emitter.emit("authenticated") runs every listener registered by now.
Emitted(ls) == ls

\* onAuth of w: clearTimeout(timer); resolve().  The listener was added
\* with once(), so the emitter drops it before it runs.
NotifyAuth ==
    /\ notifies < MaxNotifies
    /\ notifies' = notifies + 1
    /\ promise' = [w \in Waiters |->
                      IF w \in Emitted(listeners)
                      THEN Settle(promise[w], "resolved") ELSE promise[w]]
    /\ timers' = timers \ Emitted(listeners)
    /\ listeners' = listeners \ Emitted(listeners)
    /\ signalled' = [w \in Waiters |->
                        signalled[w] \/ promise[w] = "pending"]
    /\ toolLast' = NoTool
    /\ UNCHANGED <<deadline, gateNow, clientVars, probe>>

\* A timer callback that removed the listener and settled nothing.
TimedOutSilently(p) == p

\* reject(new Error("Authentication timed out"))
TimedOut(p) == Settle(p, "rejected")

\* The timer of w runs, at its deadline or later:
\* emitter.removeListener("authenticated", onAuth); reject(...).
TimerFires(w) ==
    /\ w \in timers
    /\ gateNow >= deadline[w]
    /\ timers' = timers \ {w}
    /\ listeners' = listeners \ {w}
    /\ promise' = [promise EXCEPT ![w] = TimedOut(promise[w])]
    /\ toolLast' = NoTool
    /\ UNCHANGED <<deadline, gateNow, signalled, notifies, clientVars, probe>>

GateTick ==
    /\ gateNow < MaxGateTime
    /\ gateNow' = gateNow + 1
    /\ toolLast' = NoTool
    /\ UNCHANGED <<promise, listeners, timers, deadline, signalled, notifies,
                   clientVars, probe>>

\* What `await client.login(email, password)` and `await
\* client.submitMfa(code)` end in, as the handler sees it.
ToolOutcomes(tool) ==
    IF tool = "garmin-login" THEN {"success", "needs_mfa", "error"}
    ELSE {"success", "error"}

\* The garmin-login and garmin-submit-mfa handlers: the call on the client,
\* then the result for the host.  On success the client holds the tokens of
\* the exchange; with "needs_mfa" it holds the challenge; a throw leaves the
\* handler with the error.  submitMfa throws unless a login asked for a code.
AuthTool(tool) ==
    /\ \A t \in Tasks : Free(t)
    /\ \E outcome \in ToolOutcomes(tool), expiresIn \in ExpiresInChoices :
          /\ (tool = "garmin-submit-mfa" /\ pendingMfaState = 0) =>
                outcome = "error"
          /\ toolLast' = [tool |-> tool, status |-> outcome]
          /\ IF outcome = "success"
             THEN /\ oauth1Token' = nextO1
                  /\ oauth2Token' = [id |-> nextO2, o1 |-> nextO1,
                                     expires_at |-> ExpiresAt(now, expiresIn)]
                  /\ file1' = Json(nextO1)
                  /\ file2' = Json(oauth2Token')
                  /\ pendingMfaState' =
                        IF tool = "garmin-submit-mfa" THEN 0
                        ELSE pendingMfaState
             ELSE /\ UNCHANGED <<oauth1Token, oauth2Token, file1, file2>>
                  /\ pendingMfaState' =
                        IF outcome = "needs_mfa" THEN nextMfa
                        ELSE pendingMfaState
    /\ UNCHANGED <<cachedConsumer, now, pc, op, loc, trace, last, nextO1,
                   nextO2, nextMfa, regime, faults, ops, overlaps,
                   consumerFetches, loggedOut>>
    /\ UNCHANGED <<promise, listeners, timers, deadline, gateNow, signalled,
                   notifies, probe>>

GarminLoginTool == AuthTool("garmin-login")

\* The garmin-check-auth handler: `await client.resume()` in a try; the
\* answer is authenticated: true when resume returned, false when it threw.
GarminCheckAuth(res) == res.status = "ok"

GarminSubmitMfaTool == AuthTool("garmin-submit-mfa")

\* The server starts with nothing stored and no call on the client.
InitGate ==
    /\ Init
    /\ file1 = Absent /\ file2 = Absent
    /\ regime = [overlaps |-> 0, faults |-> 1, ops |-> MaxOps]

\* The gate by itself: its two functions, its timers and its clock.
NextGate ==
    \/ \E w \in Waiters : WaitForAuth(w)
    \/ NotifyAuth
    \/ \E w \in Waiters : TimerFires(w)
    \/ GateTick

SpecGate == InitGate /\ [][NextGate]_vars

\* The gate with the tool handlers that sign the client in.
NextTools ==
    \/ \E w \in Waiters : WaitForAuth(w)
    \/ NotifyAuth
    \/ \E w \in Waiters : TimerFires(w)
    \/ GateTick
    \/ GarminLoginTool
    \/ GarminSubmitMfaTool

SpecTools == InitGate /\ [][NextTools]_vars

\* Time passes and a due timer runs.
SpecGateFair ==
    /\ SpecGate
    /\ WF_vars(GateTick)
    /\ \A w \in Waiters : WF_vars(TimerFires(w))

\* ------------------------------------------------------- token expiry
\* isOAuth2Expired() applied alone, to a token or to none, at a clock reading.

\* expires_at of the token, in seconds after the clock reading.
ExpiryOffsets == {0 - 1, 0, 30, 59, 60, 61, 120, 3600}

ExpiryInputs ==
    [fn : {"isOAuth2Expired"}, applied : {FALSE}, res : {FALSE},
     now : 0..MaxProbeNow,
     tok : {NullO2} \cup
           {[id |-> 1, o1 |-> 1, expires_at |-> n + off] :
               n \in 0..MaxProbeNow, off \in ExpiryOffsets}]

InitExpiry ==
    /\ ClientInit
    /\ file1 = Absent /\ file2 = Absent
    /\ regime = [overlaps |-> 0, faults |-> 1, ops |-> MaxOps]
    /\ GateIdle
    /\ probe \in ExpiryInputs

ApplyIsExpired ==
    /\ probe.fn = "isOAuth2Expired"
    /\ ~probe.applied
    /\ probe' = [probe EXCEPT !.applied = TRUE,
                              !.res = IsExpired(probe.tok, probe.now)]
    /\ UNCHANGED <<clientVars, gateVars>>

NextExpiry == ApplyIsExpired

SpecExpiry == InitExpiry /\ [][NextExpiry]_vars

\* ----------------------------------------------------------- auth steps
\* The six requests of signing in, each applied alone to a response: what
\* the step makes of it.  "next" is the flow going on to its next step.

AuthSteps == {"establish", "prepare", "submit", "verifyMfa", "x1", "x2"}

\* A response, with everything any of the steps reads from it.
AuthResponses ==
    [net : BOOLEAN, status : {200, 204, 401, 429, 500}, title : Titles,
     csrf : BOOLEAN, ticket : BOOLEAN,
     oauth_token : BOOLEAN, oauth_token_secret : BOOLEAN,
     expires_in : ExpiresInChoices]

StepOutcome(step, r) ==
    CASE step = "establish" -> EstablishOutcome(r)
      [] step = "prepare" -> PrepareOutcome(r)
      [] step = "submit" -> SsoLoginOutcome(r)
      [] step = "verifyMfa" -> SsoMfaOutcome(r)
      [] step = "x1" -> OAuth1Outcome(r)
      [] step = "x2" -> OAuth2Outcome(r)

StepMessage(step, r) ==
    CASE step = "establish" -> NoMessage
      [] step = "prepare" -> PrepareMessage(r)
      [] step = "submit" -> SsoLoginMessage(r)
      [] step = "verifyMfa" -> SsoMfaMessage(r)
      [] step = "x1" -> OAuth1Message(r)
      [] step = "x2" -> OAuth2Message(r)

InitAuthSteps ==
    /\ ClientInit
    /\ file1 = Absent /\ file2 = Absent
    /\ regime = [overlaps |-> 0, faults |-> 1, ops |-> MaxOps]
    /\ GateIdle
    /\ probe \in [fn : {"authStep"}, applied : {FALSE}, res : {"none"},
                  msg : {NoMessage}, step : AuthSteps, resp : AuthResponses]

ApplyAuthStep ==
    /\ probe.fn = "authStep"
    /\ ~probe.applied
    /\ probe' = [probe EXCEPT !.applied = TRUE,
                              !.res = StepOutcome(probe.step, probe.resp),
                              !.msg = StepMessage(probe.step, probe.resp)]
    /\ UNCHANGED <<clientVars, gateVars>>

NextAuthSteps == ApplyAuthStep

SpecAuthSteps == InitAuthSteps /\ [][NextAuthSteps]_vars

\* --------------------------------------------------------------- SSO runs
\* sso.login and sso.submitMfa run alone, request by request: what was sent
\* so far, the response to the last request, and what the function ended in.

NoResponse == [net |-> TRUE, status |-> 0]

SsoStart(flow, at) ==
    [fn |-> "sso", flow |-> flow, at |-> at, sent |-> <<>>,
     resp |-> NoResponse, res |-> "none", msg |-> NoMessage]

InitSso ==
    /\ ClientInit
    /\ file1 = Absent /\ file2 = Absent
    /\ regime = [overlaps |-> 0, faults |-> 1, ops |-> MaxOps]
    /\ GateIdle
    /\ probe \in {SsoStart("login", "establish"),
                  SsoStart("submitMfa", "verifyMfa")}

\* The step at `step` has sent its request and handles the response r: it
\* ends the function with outcome o, or goes on to the step `next`.
SsoStep(step, r, o, m, next) ==
    /\ probe.fn = "sso"
    /\ probe.at = step
    /\ probe' = [probe EXCEPT !.sent = Append(@, step),
                              !.resp = r,
                              !.res = IF o = "next" THEN "none" ELSE o,
                              !.msg = m,
                              !.at = IF o = "next" THEN next ELSE "done"]
    /\ UNCHANGED <<clientVars, gateVars>>

SsoEstablish ==
    \E r \in EstablishResponses :
       SsoStep("establish", r, EstablishOutcome(r), NoMessage, "prepare")

SsoPrepare ==
    \E r \in PrepareResponses :
       SsoStep("prepare", r, PrepareOutcome(r), PrepareMessage(r), "submit")

SsoSubmit ==
    \E r \in SubmitResponses :
       SsoStep("submit", r, SsoLoginOutcome(r), SsoLoginMessage(r), "done")

SsoVerifyMfa ==
    \E r \in SubmitResponses :
       SsoStep("verifyMfa", r, SsoMfaOutcome(r), SsoMfaMessage(r), "done")

NextSso ==
    \/ SsoEstablish
    \/ SsoPrepare
    \/ SsoSubmit
    \/ SsoVerifyMfa

SpecSso == InitSso /\ [][NextSso]_vars

\* ---------------------------------------------------------- storage alone
\* FileTokenStorage called directly, one call at a time, on files that hold
\* anything.  An OAuth1 token has its optional mfa_token set, explicitly
\* undefined (as getOAuth1Token leaves it without MFA) or missing.

StoreO1 == [id : {1, 2}, mfa_token : {"missing", "undefined", "m1"}]
StoreO2 == {[id |-> i, o1 |-> i, expires_at |-> e] :
               i \in {1, 2}, e \in ExpiresInChoices}

\* A stringify that wrote the mandatory fields only.
StringifyMandatory(v) ==
    IF "mfa_token" \in DOMAIN v THEN [v EXCEPT !.mfa_token = "missing"] ELSE v

\* JSON.stringify(token, null, 2): a property whose value is undefined is
\* left out.  JSON.parse gives back what the text holds.
Stringify(v) ==
    IF "mfa_token" \in DOMAIN v
    THEN [v EXCEPT !.mfa_token = IF @ = "undefined" THEN "missing" ELSE @]
    ELSE v

\* Reading property mfa_token of a token: undefined when it is missing.
ReadOptional(x) == IF x = "missing" THEN "undefined" ELSE x

\* Deep equality of two tokens: every property reads the same.
DeepEqual(a, b) ==
    /\ DOMAIN a = DOMAIN b
    /\ \A f \in DOMAIN a :
          IF f = "mfa_token" THEN ReadOptional(a[f]) = ReadOptional(b[f])
          ELSE a[f] = b[f]

NoCall == [op |-> "none", ok |-> TRUE, a1 |-> 0, a2 |-> NullO2, out |-> NoTokens]

StorageIdle ==
    [fn |-> "storage", pc |-> "idle", n |-> 0, a1 |-> 0, a2 |-> NullO2,
     raw1 |-> Unread, raw2 |-> Unread, rm1 |-> FALSE, rm2 |-> FALSE,
     done |-> NoCall, before |-> NoCall]

FileContents1 == {Absent, Corrupt} \cup {Json(Stringify(v)) : v \in StoreO1}
FileContents2 == {Absent, Corrupt} \cup {Json(Stringify(v)) : v \in StoreO2}

\* The token files hold anything when the storage is first used: nothing,
\* text that is not JSON, or a token written earlier.
InitStorage ==
    /\ oauth1Token = 0
    /\ oauth2Token = NullO2
    /\ pendingMfaState = 0
    /\ cachedConsumer = "none"
    /\ file1 \in FileContents1
    /\ file2 \in FileContents2
    /\ now = 0
    /\ pc = [t \in Tasks |-> "idle"]
    /\ op = [t \in Tasks |-> "none"]
    /\ loc = [t \in Tasks |-> NoLoc]
    /\ trace = [t \in Tasks |-> <<>>]
    /\ last = NoLast
    /\ nextO1 = 2
    /\ nextO2 = 2
    /\ nextMfa = 1
    /\ regime = [overlaps |-> 0, faults |-> 1, ops |-> MaxOps]
    /\ faults = 0
    /\ ops = 0
    /\ overlaps = 0
    /\ consumerFetches = 0
    /\ loggedOut = FALSE
    /\ GateIdle
    /\ probe = StorageIdle

StorageFrame ==
    UNCHANGED <<oauth1Token, oauth2Token, pendingMfaState, cachedConsumer, now,
                pc, op, loc, trace, last, nextO1, nextO2, nextMfa, regime,
                faults, ops, overlaps, consumerFetches, loggedOut, gateVars>>

\* The call in progress completes: `call` becomes the last completed one.
StorageDone(call) ==
    [StorageIdle EXCEPT !.n = probe.n, !.done = call, !.before = probe.done]

CanCallStorage ==
    /\ probe.fn = "storage"
    /\ probe.pc = "idle"
    /\ probe.n < MaxStorageOps

\* save(oauth1, oauth2): mkdir, then on to the first writeFile.
StSaveCall ==
    /\ CanCallStorage
    /\ \E t1 \in StoreO1, t2 \in StoreO2, mkdirOk \in BOOLEAN :
          probe' = IF mkdirOk
                   THEN [probe EXCEPT !.pc = "w1", !.n = @ + 1,
                                      !.a1 = t1, !.a2 = t2]
                   ELSE [StorageDone([NoCall EXCEPT !.op = "save", !.ok = FALSE,
                                                    !.a1 = t1, !.a2 = t2])
                           EXCEPT !.n = probe.n + 1]
    /\ UNCHANGED <<file1, file2>>
    /\ StorageFrame

StWrite1 ==
    /\ probe.fn = "storage" /\ probe.pc = "w1"
    /\ \E ok \in BOOLEAN :
          IF ok
          THEN /\ file1' = Json(Stringify(probe.a1))
               /\ probe' = [probe EXCEPT !.pc = "w2"]
          ELSE /\ file1' \in AfterFailedWrite(file1)
               /\ probe' = StorageDone([NoCall EXCEPT !.op = "save", !.ok = FALSE,
                                                      !.a1 = probe.a1,
                                                      !.a2 = probe.a2])
    /\ UNCHANGED file2
    /\ StorageFrame

StWrite2 ==
    /\ probe.fn = "storage" /\ probe.pc = "w2"
    /\ \E ok \in BOOLEAN :
          /\ file2' = IF ok THEN Json(Stringify(probe.a2)) ELSE file2
          /\ ok \/ file2' \in AfterFailedWrite(file2)
          /\ probe' = StorageDone([NoCall EXCEPT !.op = "save", !.ok = ok,
                                                 !.a1 = probe.a1,
                                                 !.a2 = probe.a2])
    /\ UNCHANGED file1
    /\ StorageFrame

\* load(): both readFile calls are issued.
StLoadCall ==
    /\ CanCallStorage
    /\ probe' = [probe EXCEPT !.pc = "load", !.n = @ + 1]
    /\ UNCHANGED <<file1, file2>>
    /\ StorageFrame

StRead1 ==
    /\ probe.fn = "storage" /\ probe.pc = "load"
    /\ probe.raw1 = Unread
    /\ probe' = [probe EXCEPT !.raw1 = file1]
    /\ UNCHANGED <<file1, file2>>
    /\ StorageFrame

StRead2 ==
    /\ probe.fn = "storage" /\ probe.pc = "load"
    /\ probe.raw2 = Unread
    /\ probe' = [probe EXCEPT !.raw2 = file2]
    /\ UNCHANGED <<file1, file2>>
    /\ StorageFrame

\* Promise.all has settled: the parsed pair, or null from the catch.
StLoadReturn ==
    /\ probe.fn = "storage" /\ probe.pc = "load"
    /\ LoadSettled(probe.raw1, probe.raw2)
    /\ probe' = StorageDone([NoCall EXCEPT
                                !.op = "load",
                                !.out = LoadResult(probe.raw1, probe.raw2)])
    /\ UNCHANGED <<file1, file2>>
    /\ StorageFrame

\* clear(): both rm calls are issued.
StClearCall ==
    /\ CanCallStorage
    /\ probe' = [probe EXCEPT !.pc = "clear", !.n = @ + 1]
    /\ UNCHANGED <<file1, file2>>
    /\ StorageFrame

StRm1 ==
    /\ probe.fn = "storage" /\ probe.pc = "clear"
    /\ ~probe.rm1
    /\ file1' = Removed(file1)
    /\ probe' = [probe EXCEPT !.rm1 = TRUE]
    /\ UNCHANGED file2
    /\ StorageFrame

StRm2 ==
    /\ probe.fn = "storage" /\ probe.pc = "clear"
    /\ ~probe.rm2
    /\ file2' = Removed(file2)
    /\ probe' = [probe EXCEPT !.rm2 = TRUE]
    /\ UNCHANGED file1
    /\ StorageFrame

StClearReturn ==
    /\ probe.fn = "storage" /\ probe.pc = "clear"
    /\ probe.rm1 /\ probe.rm2
    /\ probe' = StorageDone([NoCall EXCEPT !.op = "clear"])
    /\ UNCHANGED <<file1, file2>>
    /\ StorageFrame

NextStorage ==
    \/ StSaveCall
    \/ StWrite1
    \/ StWrite2
    \/ StLoadCall
    \/ StRead1
    \/ StRead2
    \/ StLoadReturn
    \/ StClearCall
    \/ StRm1
    \/ StRm2
    \/ StClearReturn

SpecStorage == InitStorage /\ [][NextStorage]_vars

\* ------------------------------------------------------ data tool call
\* One call of a data tool through withAuth, with the gate, the clock and
\* the login tool beside it.  ev lists what the call did, in order.

\* waitForAuth() is called without an argument: timeoutMs = 300_000.
DefaultTimeout == 1

ResumeOutcomes == {"ok", "AuthError", "TokenExpiredError", "RateLimitError",
                   "NetworkError", "FsError"}

\* What the data fetch fn() ends in.
FnOutcomes == {"ok", "AuthError", "TokenExpiredError", "RateLimitError",
               "NetworkError", "GarminError", "TypeError"}

\* A wrapper that waited and fetched again on whatever the fetch raised.
RetryOnAny(kind) == TRUE

\* err instanceof GarminAuthError || err instanceof GarminTokenExpiredError
RetryOn(kind) ==
    InstanceOf(kind, "AuthError") \/ InstanceOf(kind, "TokenExpiredError")

WithAuthStart ==
    [fn |-> "withAuth", pc |-> "start", ev |-> <<>>, w |-> 0, res |-> "none"]

InitWithAuth ==
    /\ ClientInit
    /\ file1 = Absent /\ file2 = Absent
    /\ regime = [overlaps |-> 0, faults |-> 1, ops |-> MaxOps]
    /\ GateIdle
    /\ probe = WithAuthStart

ClientFrame ==
    UNCHANGED <<pendingMfaState, cachedConsumer, file1, file2, now, pc, op,
                loc, trace, last, nextO1, nextO2, nextMfa, regime, faults, ops,
                overlaps, consumerFetches, loggedOut>>

\* The call of waitForAuth() by the tool call, which then awaits waiter w.
WaSuspend(newpc, events) ==
    \E w \in Waiters :
       /\ WaitForAuthCalled(w, DefaultTimeout)
       /\ probe' = [probe EXCEPT !.pc = newpc, !.w = w,
                                 !.ev = @ \o events \o <<"wait">>]

\* The call ends: with a result, or raising kind.
WaEnd(events, res) ==
    /\ probe' = [probe EXCEPT !.pc = "done", !.res = res, !.ev = @ \o events]
    /\ UNCHANGED gateVars

\* withAuth(fn) up to its first await: resume() on a client that is not
\* authenticated, fn() otherwise.
WaCall ==
    /\ probe.fn = "withAuth" /\ probe.pc = "start"
    /\ probe' = IF isAuthenticated
                THEN [probe EXCEPT !.pc = "fn1", !.ev = @ \o <<"fn">>]
                ELSE [probe EXCEPT !.pc = "resume", !.ev = @ \o <<"resume">>]
    /\ UNCHANGED <<clientVars, gateVars>>

\* client.resume() has returned or raised; a raise is caught, whatever it
\* is, and waitForAuth() is called.  A resume that failed in its refresh has
\* installed the stored pair.
WaResumeReturn ==
    /\ probe.fn = "withAuth" /\ probe.pc = "resume"
    /\ \E o \in ResumeOutcomes, s \in StoredO2 :
          /\ IF o = "AuthError"
             THEN UNCHANGED <<oauth1Token, oauth2Token>>
             ELSE oauth1Token' = 1 /\ oauth2Token' = s
          /\ IF o = "ok"
             THEN /\ probe' = [probe EXCEPT !.pc = "fn1",
                                            !.ev = @ \o <<"resumed", "fn">>]
                  /\ UNCHANGED gateVars
             ELSE WaSuspend("wait0", <<"resumeFailed">>)
    /\ ClientFrame

\* The awaited waitForAuth() promise has settled: resolved, fn() is called;
\* rejected, the timeout error leaves withAuth.
WaWaitReturn ==
    /\ probe.fn = "withAuth" /\ probe.pc \in {"wait0", "wait1"}
    /\ promise[probe.w] \in {"resolved", "rejected"}
    /\ IF promise[probe.w] = "resolved"
       THEN /\ probe' = [probe EXCEPT
                            !.pc = IF @ = "wait0" THEN "fn1" ELSE "fn2",
                            !.ev = @ \o <<"resolved", "fn">>]
            /\ UNCHANGED gateVars
       ELSE WaEnd(<<"rejected">>, "Error")
    /\ UNCHANGED clientVars

\* fn() has returned or raised.  The first fn() raising an AuthError or a
\* TokenExpiredError leads to waitForAuth(); every other error, and every
\* error of the second fn(), leaves withAuth.  A fetch that succeeded may
\* have refreshed the OAuth2 token.
WaFnReturn ==
    /\ probe.fn = "withAuth" /\ probe.pc \in {"fn1", "fn2"}
    /\ \E o \in FnOutcomes, refreshed \in BOOLEAN, s \in StoredO2 :
          /\ (refreshed => (o = "ok" /\ isAuthenticated))
          /\ o = "ok" => isAuthenticated
          /\ oauth2Token' = IF refreshed THEN [s EXCEPT !.o1 = oauth1Token]
                            ELSE oauth2Token
          /\ IF o = "ok" THEN WaEnd(<<"ok">>, "ok")
             ELSE IF probe.pc = "fn1" /\ RetryOn(o)
             THEN WaSuspend("wait1", <<o>>)
             ELSE WaEnd(<<o>>, o)
    /\ UNCHANGED oauth1Token
    /\ ClientFrame

\* Time passes while a timer is armed.
WaTick ==
    /\ \E w \in timers : gateNow < deadline[w]
    /\ GateTick

NextWithAuth ==
    \/ WaCall
    \/ WaResumeReturn
    \/ WaWaitReturn
    \/ WaFnReturn
    \/ NotifyAuth
    \/ \E w \in Waiters : TimerFires(w)
    \/ WaTick
    \/ GarminLoginTool

SpecWithAuth == InitWithAuth /\ [][NextWithAuth]_vars

\* Every request of the call completes, time passes and a due timer runs.
SpecWithAuthFair ==
    /\ SpecWithAuth
    /\ WF_vars(WaCall)
    /\ WF_vars(WaResumeReturn)
    /\ WF_vars(WaWaitReturn)
    /\ WF_vars(WaFnReturn)
    /\ WF_vars(WaTick)
    /\ \A w \in Waiters : WF_vars(TimerFires(w))

\* ------------------------------------------------------ reading a trace

Has(tr, e) == \E i \in DOMAIN tr : tr[i] = e

Count(tr, e) == Cardinality({i \in DOMAIN tr : tr[i] = e})

IndexOf(tr, e) ==
    CHOOSE i \in DOMAIN tr : tr[i] = e /\ \A j \in 1..(i - 1) : tr[j] # e

\* What precedes and what follows the first e of tr.
Before(tr, e) == SubSeq(tr, 1, IndexOf(tr, e) - 1)
After(tr, e) == SubSeq(tr, IndexOf(tr, e) + 1, Len(tr))

Responses == {"rfail", "r200", "r204", "r401", "r500"}

\* ------------------------------------------------------------------ claims

\* C1, as stated, of a call in which nothing failed and with which no other
\* call was interleaved: a connectapi() call sends at most two API requests;
\* when the first response is 401 the call makes exactly one refresh
\* exchange and exactly one retry; a retry answered 200 makes the call
\* succeed after exactly one refresh exchange, a retry answered 401 makes it
\* raise TokenExpiredError with no third request.
C1_AsStated ==
    (last.op = "connectapi" /\ last.clean /\ faults = 0) =>
        LET tr == last.trace IN
        /\ Count(tr, "req") <= 2
        /\ Has(tr, "r401") =>
              /\ Count(tr, "x2") = 1
              /\ Count(tr, "req") = 2
              /\ tr[Len(tr)] = "r200" => last.res = Ok(1)
              /\ tr[Len(tr)] = "r401" => last.res = Err("TokenExpiredError")

\* C1, amended: a connectapi() call sends at most two API requests.  Before
\* the first one it makes one refresh exchange and one save when the token
\* was expired at the call, and none otherwise.  After a first response of
\* 401 it either raises without a retry (before the exchange only when the
\* OAuth1 token is null by then, else after the exchange or after the save)
\* or makes exactly one exchange, one save and one retry, whose response is
\* final: 200 makes the call succeed, 401 makes it raise TokenExpiredError.
C1_RetryOnce ==
    last.op = "connectapi" =>
        LET tr == last.trace IN
        /\ Count(tr, "req") <= 2
        /\ Has(tr, "req") =>
              Before(tr, "req") =
                  (IF last.wasExpired THEN <<"x2", "save">> ELSE <<>>)
        /\ Has(tr, "r401") =>
              LET rest == After(tr, "r401") IN
              \/ /\ rest = <<>>
                 /\ oauth1Token = 0
                 /\ last.res.status = "error"
              \/ /\ rest \in {<<"x2">>, <<"x2", "save">>}
                 /\ last.res.status = "error"
              \/ \E r \in Responses :
                    /\ rest = <<"x2", "save", "req", r>>
                    /\ r = "r200" => last.res = Ok(1)
                    /\ r = "r401" => last.res = Err("TokenExpiredError")

\* A connectapi() whose retry was answered 401 has returned.
C1_Witness ==
    /\ last.op = "connectapi"
    /\ last.trace = <<"req", "r401", "x2", "save", "req", "r401">>
    /\ last.res = Err("TokenExpiredError")

\* C2 (its first half, on which the second rests): in every reachable state
\* of the token storage either both token files are present or neither is.
C2_BothOrNeither == (file1 = Absent) <=> (file2 = Absent)

\* C3: a read of isAuthenticated yields true exactly when both in-memory
\* tokens are non-null, whatever the storage holds and whether or not the
\* OAuth2 token is expired, and changes nothing of the client, of the storage
\* or of a call in flight.
C3_IsAuthenticated ==
    [][(last'.op = "isAuthenticated" /\ ops' = ops + 1) =>
          /\ last'.res.val \in {0, 1}
          /\ last'.res.val = 1 <=> (oauth1Token # 0 /\ oauth2Token # NullO2)
          /\ UNCHANGED <<oauth1Token, oauth2Token, pendingMfaState,
                         cachedConsumer, file1, file2, now, pc, loc, trace>>
      ]_vars

\* isAuthenticated has been read as true with an expired OAuth2 token in
\* memory and nothing in storage.
C3_Witness ==
    /\ last.op = "isAuthenticated"
    /\ last.res.val = 1
    /\ isOAuth2Expired
    /\ file1 = Absent /\ file2 = Absent

\* C4: a login() that returns status success has made exactly one OAuth1
\* exchange, then one OAuth2 exchange, then one save, and returns both
\* tokens; when no other call was interleaved the client is authenticated
\* and the saved pair is the in-memory pair.
C4_LoginSuccess ==
    (last.op = "login" /\ last.res.status = "success") =>
        /\ last.trace = <<"establish", "prepare", "submit", "x1", "x2", "save">>
        /\ last.res.o1 # 0
        /\ last.res.o2 # NullO2
        /\ last.clean =>
              /\ isAuthenticated
              /\ file1 = Json(oauth1Token)
              /\ file2 = Json(oauth2Token)

\* C5: the steps of a login() up to and including the classification of the
\* SSO response as an MFA challenge change neither the in-memory tokens nor
\* the token files; the call then returns needs_mfa with the MfaState, which
\* is the pending state from then on, having made the three SSO requests and
\* no exchange and no save.
C5_MfaBranch ==
    [][\A t \in Tasks :
          /\ (pc[t] = "idle" /\ pc'[t] = "submit") =>
                UNCHANGED <<oauth1Token, oauth2Token, file1, file2>>
          /\ (/\ pc[t] = "submit" /\ pc'[t] # "submit"
              /\ last'.res.status = "needs_mfa") =>
                /\ last'.op = "login"
                /\ pc'[t] = "idle"
                /\ last'.trace = <<"establish", "prepare", "submit">>
                /\ last'.res.val # 0
                /\ pendingMfaState' = last'.res.val
                /\ UNCHANGED <<oauth1Token, oauth2Token, file1, file2>>
      ]_vars

\* A login() of an authenticated client with a saved pair has returned
\* needs_mfa.
C5_Witness ==
    /\ last.op = "login"
    /\ last.res.status = "needs_mfa"
    /\ isAuthenticated
    /\ file1.kind = "json" /\ file2.kind = "json"

\* C6: a submitMfa() that goes on to the verify-MFA request uses the state
\* the caller gave and, when the caller gave none, the pending state; a
\* submitMfa() raises at the call exactly when there is neither, and then it
\* raises AuthError, has made no request and has changed nothing.
C6_MfaState ==
    [][ops' = ops + 1 =>
          /\ \A t \in Tasks :
                (pc[t] = "idle" /\ pc'[t] = "verifyMfa") =>
                    /\ loc'[t].state # 0
                    /\ loc'[t].state = (IF loc'[t].arg # 0 THEN loc'[t].arg
                                        ELSE pendingMfaState)
          /\ last'.op = "submitMfa" =>
                /\ last'.arg = 0
                /\ pendingMfaState = 0
                /\ last'.res = Err("AuthError")
                /\ last'.trace = <<>>
                /\ UNCHANGED <<oauth1Token, oauth2Token, pendingMfaState,
                               cachedConsumer, file1, file2>>
      ]_vars

\* A submitMfa() given a state other than the pending one is in flight with
\* the state it was given.
C6_Witness ==
    \E t \in Tasks :
        /\ pc[t] = "verifyMfa"
        /\ loc[t].arg # 0
        /\ pendingMfaState # 0
        /\ loc[t].arg # pendingMfaState
        /\ loc[t].state = loc[t].arg

\* C7: when a submitMfa() has returned without error the client is
\* authenticated, the call has saved once and the files hold the in-memory
\* pair, and the pending MfaState is null, so that a submitMfa(code) without
\* a state finds no state to use.
C7_AfterSubmitMfa ==
    (last.op = "submitMfa" /\ last.res.status = "ok") =>
        /\ isAuthenticated
        /\ Count(last.trace, "save") = 1
        /\ file1 = Json(oauth1Token)
        /\ file2 = Json(oauth2Token)
        /\ pendingMfaState = 0
        /\ MfaStateUsed(0, pendingMfaState) = 0

\* C8: when resume() has returned without error the client is authenticated
\* and its OAuth2 token is not expired; a loaded token that was expired has
\* been refreshed by exactly one exchange whose result is in memory and
\* saved, and a loaded token that was not expired has led to no exchange.
C8_ResumeFresh ==
    (last.op = "resume" /\ last.res.status = "ok") =>
        /\ isAuthenticated
        /\ ~isOAuth2Expired
        /\ last.wasExpired =>
              /\ last.trace = <<"load", "x2", "save">>
              /\ file2 = Json(oauth2Token)
        /\ ~last.wasExpired => last.trace = <<"load">>

\* C9: the steps of a resume() up to the return of load() change neither the
\* in-memory tokens nor the token files; when load() returns null, for a
\* missing or a corrupt file, resume() raises AuthError there, having made
\* no exchange and no save, and the tokens and the files are as they were.
C9_ResumeNothingStored ==
    [][\A t \in Tasks :
          /\ (\/ pc[t] = "idle" /\ pc'[t] = "load"
              \/ /\ pc[t] = "load" /\ pc'[t] = "load"
                 /\ <<loc'[t].raw1, loc'[t].raw2>> # <<loc[t].raw1, loc[t].raw2>>) =>
                UNCHANGED <<oauth1Token, oauth2Token, file1, file2>>
          /\ (/\ pc[t] = "load" /\ pc'[t] # "load"
              /\ (loc[t].raw1.kind # "json" \/ loc[t].raw2.kind # "json")) =>
                /\ last'.op = "resume"
                /\ last'.res = Err("AuthError")
                /\ last'.trace = <<"load">>
                /\ UNCHANGED <<oauth1Token, oauth2Token, file1, file2>>
      ]_vars

\* A resume() of an authenticated client has raised AuthError over a corrupt
\* OAuth1 file beside a good OAuth2 file.
C9_Witness ==
    /\ last.op = "resume"
    /\ last.res = Err("AuthError")
    /\ file1 = Corrupt
    /\ file2.kind = "json"
    /\ isAuthenticated

\* C10: a getAccessToken() called with a null in-memory token raises
\* AuthError and makes no request; called with both tokens it makes a refresh
\* exchange exactly when the OAuth2 token is expired at the call; the value
\* it returns is the access_token of the in-memory OAuth2 token at the
\* return.
C10_GetAccessToken ==
    last.op = "getAccessToken" =>
        /\ ~last.wasAuth => (last.res = Err("AuthError") /\ last.trace = <<>>)
        /\ last.wasAuth => (Has(last.trace, "x2") <=> last.wasExpired)
        /\ last.res.status = "ok" => last.res.val = oauth2Token.id

\* C11: the call of logout() sets both in-memory tokens to null; each of its
\* two removals leaves its file absent; it returns without error once both
\* are done; none of its steps changes anything else.  A logout() with which
\* no other call was interleaved therefore returns with no token in memory
\* and no token file, also when it was called in that very state.
C11_Logout ==
    [][\A t \in Tasks :
          /\ (pc[t] = "idle" /\ pc'[t] = "clear") =>
                /\ oauth1Token' = 0
                /\ oauth2Token' = NullO2
                /\ UNCHANGED <<file1, file2, pendingMfaState, cachedConsumer>>
          /\ (pc'[t] = "clear" /\ loc'[t].rm1 # loc[t].rm1) =>
                /\ file1' = Absent
                /\ UNCHANGED <<oauth1Token, oauth2Token, file2,
                               pendingMfaState, cachedConsumer>>
          /\ (pc'[t] = "clear" /\ loc'[t].rm2 # loc[t].rm2) =>
                /\ file2' = Absent
                /\ UNCHANGED <<oauth1Token, oauth2Token, file1,
                               pendingMfaState, cachedConsumer>>
          /\ (pc[t] = "clear" /\ pc'[t] = "idle") =>
                /\ loc[t].rm1 /\ loc[t].rm2
                /\ last'.op = "logout"
                /\ last'.res = Ok(0)
                /\ UNCHANGED <<oauth1Token, oauth2Token, file1, file2,
                               pendingMfaState, cachedConsumer>>
                /\ last'.clean =>
                      /\ oauth1Token' = 0
                      /\ oauth2Token' = NullO2
                      /\ file1' = Absent
                      /\ file2' = Absent
      ]_vars

\* A logout() has been called on a client with no token in memory and no
\* token file, and has removed nothing yet.
C11_Witness ==
    \E t \in Tasks :
        /\ pc[t] = "clear"
        /\ loc[t].clean
        /\ ~loc[t].rm1 /\ ~loc[t].rm2
        /\ oauth1Token = 0 /\ oauth2Token = NullO2
        /\ file1 = Absent /\ file2 = Absent
        /\ ops >= 2

\* C12: once a logout() has returned and no login, submitMfa or resume has
\* been called since, the client is unauthenticated and the storage holds no
\* token file, whatever was in flight when logout ran.
C12_StaysLoggedOut ==
    loggedOut => (~isAuthenticated /\ file1 = Absent /\ file2 = Absent)

\* C13: one notifyAuth() resolves every waitForAuth() that is pending when it
\* is called, however many there are; it leaves no listener and no timer of
\* theirs behind.
C13_Broadcast ==
    [][notifies' = notifies + 1 =>
          /\ \A w \in Waiters :
                promise[w] = "pending" =>
                   promise'[w] = "resolved" /\ w \notin timers'
          /\ listeners' = {}
      ]_vars

\* One call has released two waiters.
C13_Witness ==
    /\ notifies = 1
    /\ Cardinality({w \in Waiters : promise[w] = "resolved"}) >= 2

\* C14: when the garmin-login or the garmin-submit-mfa handler completes with
\* success, the client is authenticated and no waitForAuth() is left pending.
C14_HandlersNotify ==
    toolLast.status = "success" =>
       /\ isAuthenticated
       /\ \A w \in Waiters : promise[w] # "pending"

\* C15: a notifyAuth() with no pending waiter changes nothing of the gate; a
\* waitForAuth() called after it starts pending with its listener registered,
\* and a pending waiter is resolved only by a notifyAuth() that runs while it
\* is pending.
C15_NotBuffered ==
    [][/\ (notifies' = notifies + 1 /\ \A w \in Waiters : promise[w] # "pending")
          => UNCHANGED <<promise, listeners, timers, deadline, signalled>>
       /\ \A w \in Waiters :
             /\ (promise[w] = "none" /\ promise'[w] # "none") =>
                   /\ promise'[w] = "pending"
                   /\ w \in listeners' /\ w \in timers'
             /\ (promise[w] = "pending" /\ promise'[w] = "resolved") =>
                   notifies' = notifies + 1
      ]_vars

\* A waiter that started after a notifyAuth() is pending, and that call
\* released nobody.
C15_Witness ==
    /\ notifies >= 1
    /\ \E w \in Waiters : promise[w] = "pending"
    /\ \A w \in Waiters : promise[w] # "resolved"

\* C16: a waiter is rejected only by its timer, at its deadline or later,
\* and never once a notifyAuth() has run while it was pending; a waiter that
\* no notifyAuth() reached is not resolved; and every pending waiter settles.
C16_Timeout ==
    /\ [](\A w \in Waiters :
             /\ promise[w] = "rejected" =>
                   ~signalled[w] /\ gateNow >= deadline[w]
             /\ promise[w] = "resolved" => signalled[w])
    /\ \A w \in Waiters :
          (promise[w] = "pending") ~> (promise[w] \in {"resolved", "rejected"})

\* One waiter timed out, and a notifyAuth() after that released another.
C16_Witness ==
    \E v, w \in Waiters :
       /\ promise[v] = "rejected" /\ promise[w] = "resolved"
       /\ notifies = 1

\* C17: isOAuth2Expired() answers true exactly when there is no token or the
\* clock has reached expires_at - 60: a token expiring 30 or 60 seconds from
\* now is expired, one expiring 61 or 120 seconds from now is not.
C17_Expired ==
    (probe.fn = "isOAuth2Expired" /\ probe.applied) =>
       /\ probe.res <=>
             (probe.tok = NullO2 \/ probe.now >= probe.tok.expires_at - 60)
       /\ probe.tok # NullO2 =>
             /\ probe.tok.expires_at - probe.now \in {30, 60} => probe.res
             /\ probe.tok.expires_at - probe.now \in {61, 120} => ~probe.res

\* The test has answered for a token with exactly 60 seconds left.
C17_Witness ==
    /\ probe.fn = "isOAuth2Expired" /\ probe.applied
    /\ probe.tok # NullO2
    /\ probe.tok.expires_at = probe.now + 60
    /\ probe.res

\* C18: the getConsumer() calls made without an override send at most one
\* GET for the consumer document between them, however the calls interleave.
C18_OneFetch == consumerFetches <= 1

\* C19: a getConsumer() whose fetch fails caches the fallback; once a value is
\* cached, fetched or fallback, the cache never changes again, and a call made
\* after that sends no request for the document.
C19_CachedOnce ==
    [][/\ \A t \in Tasks :
             (pc[t] = "consumer" /\ pc'[t] # "consumer" /\ loc[t].fetching
                 /\ faults' > faults) => cachedConsumer' = "fallback"
       /\ cachedConsumer # "none" =>
             /\ cachedConsumer' = cachedConsumer
             /\ consumerFetches' = consumerFetches
      ]_vars

\* C20: a 429 response at any of the six auth steps (establish, signin page,
\* signin submit, MFA verify, OAuth1 preauthorization, OAuth2 exchange) ends
\* the step with RateLimitError.
C20_RateLimited ==
    (probe.fn = "authStep" /\ probe.applied
        /\ probe.resp.net /\ probe.resp.status = 429) =>
       probe.res = "RateLimitError"

\* C21, as stated: for a signin-submit response that is not a 429, sso.login
\* returns needs_mfa if the title contains "MFA" or "Challenge", otherwise
\* success with the ticket if the title is exactly "Success", otherwise
\* raises AuthError quoting the title, whatever the title of the page is.
C21_AsStated ==
    (probe.fn = "sso" /\ probe.flow = "login" /\ probe.at = "done"
        /\ Len(probe.sent) = 3 /\ probe.resp.net /\ probe.resp.status # 429
        /\ probe.resp.title # NoTitle) =>
       LET title == probe.resp.title IN
       IF Includes(title, "MFA") \/ Includes(title, "Challenge")
       THEN probe.res = "needs_mfa"
       ELSE IF title = <<"Success">>
       THEN probe.res = "ticket"
       ELSE probe.res = "AuthError" /\ probe.msg.title = title

\* C21, amended: the same, when the page carries what is to be extracted
\* from it; a page without a title, an MFA or Challenge page without a CSRF
\* token and a Success page without a ticket raise AuthError naming the
\* missing item.
C21_Classified ==
    (probe.fn = "sso" /\ probe.flow = "login" /\ probe.at = "done"
        /\ Len(probe.sent) = 3 /\ probe.resp.net /\ probe.resp.status # 429) =>
       LET title == probe.resp.title IN
       IF title = NoTitle
       THEN /\ probe.res = "AuthError"
            /\ probe.msg = Message("Could not extract page title", NoTitle, 0)
       ELSE IF Includes(title, "MFA") \/ Includes(title, "Challenge")
       THEN IF probe.resp.csrf
            THEN probe.res = "needs_mfa"
            ELSE /\ probe.res = "AuthError"
                 /\ probe.msg = Message("Could not extract CSRF token", NoTitle, 0)
       ELSE IF title = <<"Success">>
       THEN IF probe.resp.ticket
            THEN probe.res = "ticket"
            ELSE /\ probe.res = "AuthError"
                 /\ probe.msg = Message("Could not extract SSO ticket", NoTitle, 0)
       ELSE probe.res = "AuthError" /\ probe.msg.title = title

\* A "Security Challenge" page with a CSRF token was answered with needs_mfa.
C21_Witness ==
    /\ probe.fn = "sso" /\ probe.flow = "login" /\ probe.at = "done"
    /\ probe.sent = <<"establish", "prepare", "submit">>
    /\ probe.resp.title = <<"Security", "Challenge">>
    /\ probe.resp.csrf
    /\ probe.res = "needs_mfa"

\* C22: an exchange answered 401 ends the call it was made for with
\* TokenExpiredError, which is no AuthError; answered 429 with
\* RateLimitError, answered with another non-2xx status with AuthError.  The
\* call returns to its caller at once: no further exchange is sent.
C22_Exchange401 ==
    [][\A t \in Tasks, r \in Oauth2Responses :
          (r.net /\ r.status # 200 /\ OAuth2Answered(t, r)) =>
             /\ pc'[t] = "idle"
             /\ last'.op = op[t]
             /\ last'.trace = trace[t]
             /\ last'.res.status = "error"
             /\ last'.res.kind =
                   (CASE r.status = 401 -> "TokenExpiredError"
                      [] r.status = 429 -> "RateLimitError"
                      [] OTHER -> "AuthError")
             /\ r.status = 401 => ~InstanceOf(last'.res.kind, "AuthError")
      ]_vars

\* A resume() whose refresh exchange was answered has raised
\* TokenExpiredError.
C22_Witness ==
    /\ last.op = "resume"
    /\ last.res = Err("TokenExpiredError")
    /\ last.trace = <<"load", "x2">>

\* C23: getOAuth1Token returns a token exactly for a 2xx response whose body
\* carries both oauth_token and oauth_token_secret; it raises AuthError on
\* 401, RateLimitError on 429, AuthError quoting the status on any other
\* non-2xx, and AuthError on a 2xx body that lacks either field.
C23_OAuth1Token ==
    (probe.fn = "authStep" /\ probe.applied /\ probe.step = "x1"
        /\ probe.resp.net) =>
       LET r == probe.resp
           both == r.oauth_token /\ r.oauth_token_secret
       IN
       /\ probe.res = "token" <=> (r.status \in 200..299 /\ both)
       /\ r.status = 401 => probe.res = "AuthError"
       /\ r.status = 429 => probe.res = "RateLimitError"
       /\ r.status \notin (200..299) \cup {401, 429} =>
             probe.res = "AuthError" /\ probe.msg.status = r.status
       /\ (r.status \in 200..299 /\ ~both) => probe.res = "AuthError"

\* A 200 answer with oauth_token but without oauth_token_secret was refused.
C23_Witness ==
    /\ probe.fn = "authStep" /\ probe.applied /\ probe.step = "x1"
    /\ probe.resp.net /\ probe.resp.status = 200
    /\ probe.resp.oauth_token /\ ~probe.resp.oauth_token_secret
    /\ probe.res = "AuthError"

\* C24: an error raised by the SSO flow, by an OAuth exchange or by the
\* storage ends the call of login, submitMfa, resume, getAccessToken or
\* connectapi it was raised in, at once and with the kind it was raised
\* with.
C24_ErrorsPropagate ==
    [][\A t \in Tasks :
          LET Raised(k) ==
                 /\ pc'[t] = "idle"
                 /\ last'.res.status = "error"
                 /\ last'.res.kind = k
          IN
          faults' > faults =>
             /\ (pc[t] = "idle" /\ ops' > ops) =>
                   \A e \in EstablishResponses, p \in PrepareResponses :
                      LET k == IF IsError(EstablishOutcome(e))
                               THEN EstablishOutcome(e) ELSE PrepareOutcome(p)
                      IN  (IsError(k) /\ ~Raised(k)) => ~LoginCalled(t, e, p)
             /\ (pc[t] = "submit" /\ pc'[t] # pc[t]) =>
                   \A r \in SubmitResponses :
                      LET k == SsoLoginOutcome(r) IN
                      (IsError(k) /\ ~Raised(k)) => ~SubmitAnswered(t, r)
             /\ (pc[t] = "verifyMfa" /\ pc'[t] # pc[t]) =>
                   \A r \in SubmitResponses :
                      LET k == SsoMfaOutcome(r) IN
                      (IsError(k) /\ ~Raised(k)) => ~VerifyMfaAnswered(t, r)
             /\ (pc[t] = "x1" /\ pc'[t] # pc[t]) =>
                   \A r \in Oauth1Responses :
                      LET k == OAuth1Outcome(r) IN
                      (IsError(k) /\ ~Raised(k)) => ~OAuth1Answered(t, r)
             /\ (pc[t] = "x2" /\ pc'[t] # pc[t]) =>
                   \A r \in Oauth2Responses :
                      LET k == IF IsError(OAuth2Outcome(r))
                               THEN OAuth2Outcome(r) ELSE "FsError"
                      IN  ~Raised(k) => ~OAuth2Answered(t, r)
             /\ (pc[t] \in {"w1", "w2"} /\ pc'[t] # pc[t]) => Raised("FsError")
      ]_vars

\* A write of the token files failed inside a login, and the login raised
\* that storage error.
C24_Witness ==
    /\ last.op = "login"
    /\ last.res = Err("FsError")
    /\ Has(last.trace, "save")

\* C25: load() never raises; it returns null when either token file is
\* missing or holds invalid JSON, and returns a pair, the two parsed
\* contents, only when both files were read and both parse.
C25_LoadNull ==
    (probe.fn = "storage" /\ probe.pc = "idle" /\ probe.done.op = "load") =>
        /\ probe.done.ok
        /\ (file1.kind # "json" \/ file2.kind # "json") => probe.done.out.null
        /\ ~probe.done.out.null =>
              /\ file1.kind = "json" /\ file2.kind = "json"
              /\ probe.done.out.oauth1 = file1.val
              /\ probe.done.out.oauth2 = file2.val
        /\ (file1.kind = "json" /\ file2.kind = "json") => ~probe.done.out.null

\* A load returned null with the first file holding invalid JSON and the
\* second one a token.
C25_Witness ==
    /\ probe.fn = "storage" /\ probe.pc = "idle"
    /\ probe.done.op = "load"
    /\ probe.done.out.null
    /\ file1 = Corrupt
    /\ file2.kind = "json"

\* C26: with one storage call at a time, a load() that follows a save(t1, t2)
\* that succeeded returns a pair deep-equal to (t1, t2); a load() that follows
\* a clear() returns null; clear() succeeds and leaves both files missing
\* whatever they held, so a second clear() changes nothing.
C26_RoundTrip ==
    (probe.fn = "storage" /\ probe.pc = "idle") =>
        /\ (probe.done.op = "load" /\ probe.before.op = "save"
                                   /\ probe.before.ok) =>
              /\ ~probe.done.out.null
              /\ DeepEqual(probe.done.out.oauth1, probe.before.a1)
              /\ DeepEqual(probe.done.out.oauth2, probe.before.a2)
        /\ (probe.done.op = "load" /\ probe.before.op = "clear") =>
              probe.done.out.null
        /\ probe.done.op = "clear" =>
              /\ probe.done.ok
              /\ file1 = Absent /\ file2 = Absent

\* A token whose mfa_token is explicitly undefined and one whose mfa_token is
\* set were saved and loaded back, each over files that held something else.
C26_Witness ==
    /\ probe.fn = "storage" /\ probe.pc = "idle"
    /\ probe.done.op = "load"
    /\ probe.before.op = "save" /\ probe.before.ok
    /\ probe.before.a1.mfa_token = "undefined"
    /\ probe.done.out.oauth1.mfa_token = "missing"
    /\ probe.done.out.oauth2 = probe.before.a2

LoginOrder == <<"establish", "prepare", "submit">>

\* C27: sso.login() sends its requests in the order Establish, Prepare,
\* Submit, each at most once and none after it has ended; when the signin
\* page answers without a CSRF token, it raises AuthError there and the
\* credentials POST is never sent.
C27_Order ==
    [][ (probe.fn = "sso" /\ probe.flow = "login") =>
          /\ probe.at # "done"
          /\ probe'.sent = Append(probe.sent, probe.at)
          /\ Len(probe'.sent) <= Len(LoginOrder)
          /\ \A i \in DOMAIN probe'.sent : probe'.sent[i] = LoginOrder[i]
          /\ (probe.at = "prepare" /\ probe'.resp.net /\ ~probe'.resp.csrf) =>
                /\ probe'.res = "AuthError"
                /\ probe'.msg.text = "Could not extract CSRF token"
                /\ probe'.at = "done"
      ]_vars

\* A login ended in AuthError on a signin page without a CSRF token, having
\* sent the establish and the signin-page request and nothing else.
C27_Witness ==
    /\ probe.fn = "sso" /\ probe.flow = "login"
    /\ probe.at = "done"
    /\ probe.sent = <<"establish", "prepare">>
    /\ probe.resp.net /\ ~probe.resp.csrf
    /\ probe.res = "AuthError"

\* C28 as stated: sso.submitMfa() sends one request; 429 raises
\* RateLimitError, a page titled exactly "Success" yields the ticket, every
\* other title raises AuthError with the title text, and needs_mfa is never
\* returned.
C28_AsStated ==
    (probe.fn = "sso" /\ probe.flow = "submitMfa" /\ probe.at = "done"
                      /\ probe.resp.net) =>
        /\ probe.sent = <<"verifyMfa">>
        /\ probe.res # "needs_mfa"
        /\ probe.resp.status = 429 => probe.res = "RateLimitError"
        /\ (probe.resp.status # 429 /\ probe.resp.title = <<"Success">>) =>
              probe.res = "ticket"
        /\ (probe.resp.status # 429
               /\ probe.resp.title \notin {NoTitle, <<"Success">>}) =>
              /\ probe.res = "AuthError"
              /\ probe.msg.title = probe.resp.title

\* C28: sso.submitMfa() sends one request; 429 raises RateLimitError; a page
\* titled exactly "Success" yields the ticket when it carries one and raises
\* AuthError naming the missing ticket when it does not; every other title,
\* "MFA" and "Challenge" included, raises AuthError with the title text;
\* needs_mfa is never returned.
C28_Classified ==
    (probe.fn = "sso" /\ probe.flow = "submitMfa" /\ probe.at = "done"
                      /\ probe.resp.net) =>
        /\ probe.sent = <<"verifyMfa">>
        /\ probe.res # "needs_mfa"
        /\ probe.resp.status = 429 => probe.res = "RateLimitError"
        /\ (probe.resp.status # 429 /\ probe.resp.title = <<"Success">>) =>
              IF probe.resp.ticket
              THEN probe.res = "ticket"
              ELSE /\ probe.res = "AuthError"
                   /\ probe.msg = Message("Could not extract SSO ticket", NoTitle, 0)
        /\ (probe.resp.status # 429
               /\ probe.resp.title \notin {NoTitle, <<"Success">>}) =>
              /\ probe.res = "AuthError"
              /\ probe.msg = Message("MFA verification failed", probe.resp.title, 0)

\* A verification answered by a page still titled with "MFA", and carrying
\* a CSRF token, ended in AuthError quoting that title, after one request.
C28_Witness ==
    /\ probe.fn = "sso" /\ probe.flow = "submitMfa"
    /\ probe.at = "done"
    /\ probe.sent = <<"verifyMfa">>
    /\ probe.resp.net /\ probe.resp.status = 200 /\ probe.resp.csrf
    /\ probe.resp.title = <<"Enter", "MFA", "code">>
    /\ probe.res = "AuthError"
    /\ probe.msg.title = probe.resp.title

\* C29: a getAccessToken() called while another one is in flight, on a
\* client that holds both tokens with the OAuth2 token expired, goes on to a
\* refresh of its own.  When the environment fails neither, each of the two
\* returns without error having sent exactly one exchange, and once both
\* have returned the OAuth2 token in memory is the one that one of their two
\* exchanges produced.
C29_BothRefresh ==
    [][\A t \in Tasks : \A u \in Tasks \ {t} :
          (op'[t] = "getAccessToken" /\ op'[u] = "getAccessToken") =>
             /\ (Free(t) /\ ops' = ops + 1 /\ InFlight(u)
                    /\ isAuthenticated /\ isOAuth2Expired) =>
                   pc'[t] = "consumer"
             /\ (InFlight(t) /\ pc'[t] = "idle" /\ ~last'.clean
                    /\ last'.wasExpired /\ faults' = 0) =>
                   /\ Count(last'.trace, "x2") = 1
                   /\ last'.res.status = "ok"
                   /\ last'.res.val \in {nextO2' - 1, nextO2' - 2}
                   /\ Free(u) =>
                         /\ oauth2Token' # NullO2
                         /\ oauth2Token'.id \in {nextO2' - 1, nextO2' - 2}
      ]_vars

\* Two getAccessToken() calls that overlapped have both returned; the token
\* in memory is the one of the later exchange, the file holds the other.
C29_Witness ==
    /\ last.op = "getAccessToken"
    /\ last.res.status = "ok"
    /\ last.wasExpired /\ ~last.clean
    /\ Count(last.trace, "x2") = 1
    /\ op[1] = "getAccessToken" /\ op[2] = "getAccessToken"
    /\ \A t \in Tasks : Free(t)
    /\ oauth2Token.id = nextO2 - 1
    /\ file2 = Json([oauth2Token EXCEPT !.id = nextO2 - 2])

\* C30: a resume() called on an unauthenticated client, with no other call
\* interleaved, either returns and the client is authenticated, or raises
\* and the client is still unauthenticated, whatever made it fail.
C30_ResumeAllOrNothing ==
    (last.op = "resume" /\ ~last.wasAuth /\ last.clean) =>
        /\ last.res.status = "ok" => isAuthenticated
        /\ last.res.status = "error" => ~isAuthenticated

\* C33: when login() has returned status success, the oauth1 and oauth2 it
\* returns are non-null, the OAuth2 token is the one exchanged for that
\* OAuth1 token, and the client is authenticated, whatever ran on the client
\* in between.
C33_LoginSuccess ==
    (last.op = "login" /\ last.res.status = "success") =>
        /\ last.res.o1 # 0
        /\ last.res.o2 # NullO2
        /\ last.res.o2.o1 = last.res.o1
        /\ isAuthenticated

\* C36: a getAccessToken() or a connectapi() ends by returning its value or
\* by raising one of the client's error kinds, never by the TypeError of a
\* property read on a null token, under every interleaving.
C36_NoNullRead ==
    (last.op \in {"getAccessToken", "connectapi"}
        /\ last.res.status = "error") =>
        last.res.kind # "TypeError"

\* C34: whenever no call is in flight and the client is authenticated, the
\* token files hold the in-memory pair.
C34_StorageMirrorsMemory ==
    ((\A t \in Tasks : Free(t)) /\ isAuthenticated) =>
        /\ file1 = Json(oauth1Token)
        /\ file2 = Json(oauth2Token)

\* C35: whenever both in-memory tokens are non-null, the OAuth2 token is the
\* one that was exchanged for, or loaded together with, the OAuth1 token in
\* memory.
C35_PairBelongsTogether ==
    isAuthenticated => oauth2Token.o1 = oauth1Token

\* C37: no pending MfaState is retained once a login() has returned
\* success, a submitMfa() has returned, or a logout() has returned with no
\* other call interleaved.
C37_NoStalePending ==
    (/\ last.clean
     /\ \/ last.op = "login" /\ last.res.status = "success"
        \/ last.op = "submitMfa" /\ last.res.status = "ok"
        \/ last.op = "logout" /\ last.res.status = "ok") =>
        pendingMfaState = 0

Pending(pr) == {w \in Waiters : pr[w] = "pending"}

\* C38: a waitForAuth() promise that has settled stays as it settled; it is
\* resolved only by a notifyAuth() and rejected only by its own timer at its
\* deadline; a settled promise has neither its listener nor its timer
\* registered, and the registered listeners are as many as the pending
\* waiters.
C38_SettlesOnce ==
    [][/\ \A w \in Waiters :
            /\ promise[w] \in {"resolved", "rejected"} =>
                  promise'[w] = promise[w]
            /\ (promise[w] = "pending" /\ promise'[w] = "resolved") =>
                  notifies' = notifies + 1
            /\ (promise[w] = "pending" /\ promise'[w] = "rejected") =>
                  /\ notifies' = notifies
                  /\ w \in timers /\ gateNow >= deadline[w]
            /\ promise'[w] \in {"resolved", "rejected"} =>
                  /\ w \notin listeners'
                  /\ w \notin timers'
       /\ Cardinality(listeners') = Cardinality(Pending(promise'))
       /\ listeners' = Pending(promise')
       /\ timers' = Pending(promise')
      ]_vars

\* One waiter was released by notifyAuth(), a later one was rejected by its
\* timer, and a third one is pending with the only listener.
C38_Witness ==
    /\ \E w \in Waiters : promise[w] = "resolved"
    /\ \E w \in Waiters : promise[w] = "rejected"
    /\ Cardinality(Pending(promise)) = 1
    /\ listeners = Pending(promise)

\* C39: when the garmin-check-auth tool has finished, with no other call
\* interleaved with its resume(), it has answered authenticated: true exactly
\* when the client is authenticated.
C39_CheckAuth ==
    (last.op = "resume" /\ last.clean) =>
        (GarminCheckAuth(last.res) <=> isAuthenticated)

\* The positions of ev at which fn() was called.
FnCalls(ev) == {i \in DOMAIN ev : ev[i] = "fn"}

\* C32: withAuth calls fn() at most twice; a second time only after the
\* first fn() raised AuthError or TokenExpiredError and the waitForAuth()
\* that followed resolved; an error of the second fn(), and any other error
\* of the first, leaves withAuth as it is; when resume() failed, fn() is not
\* called before the waitForAuth() that followed has resolved.
C32_FetchAtMostTwice ==
    probe.fn = "withAuth" =>
        LET ev == probe.ev
            calls == FnCalls(ev)
        IN
        /\ Cardinality(calls) <= 2
        /\ \A i \in calls, j \in calls :
              i < j =>
                 /\ j = i + 4
                 /\ ev[i + 1] \in {"AuthError", "TokenExpiredError"}
                 /\ ev[i + 2] = "wait"
                 /\ ev[i + 3] = "resolved"
        /\ \A i \in calls :
              (i < Len(ev) /\ ev[i + 1] \in FnOutcomes \ {"ok"}
                 /\ (ev[i + 1] \notin {"AuthError", "TokenExpiredError"}
                       \/ \E h \in calls : h < i)) =>
                 /\ Len(ev) = i + 1
                 /\ probe.pc = "done"
                 /\ probe.res = ev[i + 1]
        /\ Has(ev, "resumeFailed") =>
              \A i \in calls :
                 \E k \in 1..(i - 1) :
                    /\ ev[k] = "resolved"
                    /\ \E h \in 1..(k - 1) : ev[h] = "resumeFailed"

\* A call whose resume() failed waited, fetched after the login, was told
\* the token had expired, waited again and raised what its second fetch
\* raised.
C32_Witness ==
    /\ probe.fn = "withAuth"
    /\ probe.pc = "done"
    /\ probe.ev = <<"resume", "resumeFailed", "wait", "resolved", "fn",
                    "TokenExpiredError", "wait", "resolved", "fn", "AuthError">>
    /\ probe.res = "AuthError"

\* C31: a data-tool call through withAuth suspends in waitForAuth() at most
\* twice, each suspension ends when a notifyAuth() resolves it or its timer
\* rejects it, and the call eventually completes, with a result or an error.
C31_Completes ==
    /\ [](probe.fn = "withAuth" => Count(probe.ev, "wait") <= 2)
    /\ [](probe.fn = "withAuth" =>
            Count(probe.ev, "resolved") + Count(probe.ev, "rejected")
               <= Count(probe.ev, "wait"))
    /\ <>(probe.fn = "withAuth" /\ probe.pc = "done" /\ probe.res # "none")

\* A call suspended twice: a notifyAuth() ended the first suspension, the
\* timeout the second, and the call raised the timeout error.
C31_Witness ==
    /\ probe.fn = "withAuth"
    /\ probe.pc = "done"
    /\ probe.res = "Error"
    /\ Count(probe.ev, "wait") = 2
    /\ Count(probe.ev, "resolved") = 1
    /\ Count(probe.ev, "rejected") = 1
    /\ notifies = 1

====
